---- MODULE Spec2Model ----
(***************************************************************************)
(* Conway's Game of Life donation overlay (gdq-break-channels).           *)
(*                                                                         *)
(* The model follows src/unnamed/part_000, the variant of the channel     *)
(* with the IMMUNE total display; src/src/channels/conways-game-of-life/  *)
(* index.tsx holds the same engine without IMMUNE.  Line numbers in the   *)
(* comments are lines of src/unnamed/part_000.                             *)
(*                                                                         *)
(* The grid is a function row -> (column -> CellState) with rows and      *)
(* columns numbered from 0, as the arrays of the source are.               *)
(***************************************************************************)
EXTENDS Integers, Sequences, FiniteSets, TLC

(***************************************************************************)
(* Bounds of the model.                                                    *)
(***************************************************************************)
\* CONFIG.ROWS and CONFIG.COLS, scaled down from 55 x 182 (lines 9-10) so that
\* the grid can be explored; the glyph tables keep their real size.
ROWS == 16
COLS == 20
\* Dimensions of the grids updateGrid is applied to in SpecLife.
LifeRows == 3
LifeCols == 5
\* Number of successive generations applied in SpecLife.
MaxGen == 2
\* The stamping functions are given the amounts 0..MaxAmount in SpecStamp.
MaxAmount == 22
\* Stamp anchors reach this many cells beyond the grid on every side.
AnchorMargin == 8
\* The clock advances at most MaxTicks times in a run.
MaxTicks == 3
\* Totals and donation amounts of Spec have a whole part in 0..MaxWhole.
MaxWhole == 1
\* Number of total updates and of donations in a run of Spec.
MaxTotalEvents == 3
MaxDonations == 2
\* Math.random() returns a multiple of 1 / RandomSteps.
RandomSteps == 2

\* The exclude zone of the variant without immune cells (index.tsx lines
\* 159-160): 18 of 55 rows and 65 of 182 columns there, scaled with the grid.
excludeBottomRows == 12
excludeRightCols == 16

(***************************************************************************)
(* CONFIG and CellState (lines 8-37).                                      *)
(***************************************************************************)
GAME_SPEED == 100
PENDING_DURATION == 3000
INITIAL_TOTAL_DURATION == 4000

DEAD == 0
ALIVE == 1
PENDING == 2
INITIAL == 3
IMMUNE == 4

CellState == {DEAD, ALIVE, PENDING, INITIAL, IMMUNE}

(***************************************************************************)
(* Grid helpers: grid.length, grid[0].length, the array of arrays.         *)
(***************************************************************************)
\* Rows and columns are numbered from 0, so that an index i is inside an array
\* a (i >= 0 && i < a.length) exactly when i \in DOMAIN a.
NumRows(g) == Cardinality(DOMAIN g)
NumCols(g) == Cardinality(DOMAIN g[0])

\* setupGrid (lines 348-350): CONFIG.ROWS rows of CONFIG.COLS DEAD cells.
setupGrid == [r \in 0..(ROWS - 1) |-> [c \in 0..(COLS - 1) |-> DEAD]]

\* Mutant of CountsAsLive: the column wraps around the right and left edge.
CountsAsLiveWrapping(g, r, c) ==
    /\ r >= 0 /\ r < NumRows(g)
    /\ g[r][c % NumCols(g)] = ALIVE

\* Mutant of CountsAsLive: every non-DEAD neighbour counts.
CountsAsLiveNonDead(g, r, c) ==
    /\ r >= 0 /\ r < NumRows(g)
    /\ c >= 0 /\ c < NumCols(g)
    /\ g[r][c] # DEAD

(***************************************************************************)
(* The generation step (lines 309-346).                                    *)
(***************************************************************************)
\* Line 316: the neighbour is inside the grid and ALIVE.
CountsAsLive(g, r, c) ==
    /\ r \in DOMAIN g
    /\ c \in DOMAIN g[0]
    /\ g[r][c] = ALIVE

\* Lines 316-318: count++ for a neighbour that counts.
Live(g, r, c) == IF CountsAsLive(g, r, c) THEN 1 ELSE 0

\* countLiveNeighbors (lines 309-322), the two loops over i, j \in -1..1
\* written out, (0, 0) skipped.
countLiveNeighbors(g, row, col) ==
    Live(g, row - 1, col - 1) + Live(g, row - 1, col) + Live(g, row - 1, col + 1)
    + Live(g, row, col - 1) + Live(g, row, col + 1)
    + Live(g, row + 1, col - 1) + Live(g, row + 1, col) + Live(g, row + 1, col + 1)

\* Lines 329-334: the cell is skipped by the generation step.
IsProtected(s) == s = PENDING \/ s = INITIAL \/ s = IMMUNE

\* Mutant of Rule: an ALIVE cell with three live neighbours dies too
\* (liveNeighbors >= 3 in place of liveNeighbors > 3).
RuleOvercrowdAtThree(s, liveNeighbors) ==
    IF s = ALIVE /\ (liveNeighbors < 2 \/ liveNeighbors >= 3) THEN DEAD
    ELSE IF s = DEAD /\ liveNeighbors = 3 THEN ALIVE
    ELSE s

\* Mutant of Rule: a DEAD cell is also born with two live neighbours.
RuleBirthAtTwo(s, liveNeighbors) ==
    IF s = ALIVE /\ (liveNeighbors < 2 \/ liveNeighbors > 3) THEN DEAD
    ELSE IF s = DEAD /\ (liveNeighbors = 2 \/ liveNeighbors = 3) THEN ALIVE
    ELSE s

\* Lines 336-342: the next state of an unprotected cell with that many live
\* neighbours.
Rule(s, liveNeighbors) ==
    IF s = ALIVE /\ (liveNeighbors < 2 \/ liveNeighbors > 3) THEN DEAD
    ELSE IF s = DEAD /\ liveNeighbors = 3 THEN ALIVE
    ELSE s

\* The cells in the order the loops of lines 327-328 visit them: row by row,
\* each row from column 0 upwards.
RowMajor(g) ==
    [k \in 1..(NumRows(g) * NumCols(g)) |->
        <<(k - 1) \div NumCols(g), (k - 1) % NumCols(g)>>]

\* Mutant of UpdateCell: the protected cells are not skipped and the rule
\* looks at the count alone, so a protected cell is overwritten.
UpdateCellUnguarded(arrays, i, j) ==
    LET g == arrays.grid
        n == countLiveNeighbors(g, i, j)
    IN  [grid    |-> g,
         newGrid |-> [arrays.newGrid EXCEPT
                         ![i][j] = IF n < 2 \/ n > 3 THEN DEAD
                                   ELSE IF n = 3 THEN ALIVE
                                   ELSE g[i][j]]]

\* Mutant of UpdateCell: newGrid is the same array as grid (no copy at line
\* 325), so every write lands in the array the next cells read.
UpdateCellInPlace(arrays, i, j) ==
    LET g == arrays.grid
        w == [g EXCEPT ![i][j] = Rule(g[i][j], countLiveNeighbors(g, i, j))]
    IN  IF IsProtected(g[i][j]) THEN arrays ELSE [grid |-> w, newGrid |-> w]

\* The body of the loops (lines 329-342) for cell (i, j): `grid` is the array
\* passed to updateGrid, `newGrid` the array it returns.  Only newGrid is
\* written, and only grid is read.
UpdateCell(arrays, i, j) ==
    LET g == arrays.grid IN
    IF IsProtected(g[i][j]) THEN arrays
    ELSE [grid    |-> g,
          newGrid |-> [arrays.newGrid EXCEPT
                          ![i][j] = Rule(g[i][j], countLiveNeighbors(g, i, j))]]

\* F applied to the value of x: the loops hand their accumulator on as a
\* value.
Strict(x, F(_)) == CHOOSE r \in {F(v) : v \in {x}} : TRUE

\* The inner loop (line 328): the cells order[k] .. order[stop].
RECURSIVE UpdateRow(_, _, _, _)
UpdateRow(arrays, order, k, stop) ==
    Strict(<<arrays, k, stop, order>>, LAMBDA v :
        IF v[2] > v[3] THEN v[1]
        ELSE LET i == v[4][v[2]][1]
                 j == v[4][v[2]][2]
             IN  \* i < grid.length and j < grid[i].length (lines 327-328)
                 IF i \in DOMAIN v[1].grid /\ j \in DOMAIN v[1].grid[i]
                 THEN UpdateRow(UpdateCell(v[1], i, j), v[4], v[2] + 1, v[3])
                 ELSE UpdateRow(v[1], v[4], v[2] + 1, v[3]))

\* The outer loop (line 327): one pass of the inner loop for every row of
\* cells of the order.
RECURSIVE UpdateLoop(_, _, _)
UpdateLoop(arrays, order, k) ==
    Strict(<<arrays, k, order>>, LAMBDA v :
        IF v[2] > Len(v[3]) THEN v[1]
        ELSE LET stop == IF v[2] + NumCols(v[1].grid) - 1 < Len(v[3])
                         THEN v[2] + NumCols(v[1].grid) - 1 ELSE Len(v[3])
             IN  UpdateLoop(UpdateRow(v[1], v[3], v[2], stop), v[3], stop + 1))

\* updateGrid visiting the cells in the given order: both arrays after the
\* call.  Line 325: newGrid starts as a copy of grid.
updateGridArrays(g, order) ==
    Strict(order, LAMBDA cells : UpdateLoop([grid |-> g, newGrid |-> g], cells, 1))

\* updateGrid (lines 324-346): the returned array.
updateGrid(g) == updateGridArrays(g, RowMajor(g)).newGrid

(***************************************************************************)
(* The glyph atlas (lines 352-1179).                                       *)
(***************************************************************************)
\* digits (lines 352-474): glyph number -> list of <<row, col>> offsets of its "on" pixels.
digits ==
    0 :>
       <<<<1, 1>>, <<1, 2>>, <<1, 3>>, <<2, 1>>, <<2, 3>>, <<3, 1>>, <<3, 3>>, <<4, 1>>,
         <<4, 3>>, <<5, 1>>, <<5, 2>>, <<5, 3>>>> @@
    1 :>
       <<<<1, 1>>, <<2, 1>>, <<3, 1>>, <<4, 1>>, <<5, 1>>>> @@
    2 :>
       <<<<1, 1>>, <<1, 2>>, <<1, 3>>, <<2, 3>>, <<3, 1>>, <<3, 2>>, <<3, 3>>, <<4, 1>>,
         <<5, 1>>, <<5, 2>>, <<5, 3>>>> @@
    3 :>
       <<<<1, 1>>, <<1, 2>>, <<1, 3>>, <<2, 3>>, <<3, 1>>, <<3, 2>>, <<3, 3>>, <<4, 3>>,
         <<5, 1>>, <<5, 2>>, <<5, 3>>>> @@
    4 :>
       <<<<1, 1>>, <<1, 3>>, <<2, 1>>, <<2, 3>>, <<3, 1>>, <<3, 2>>, <<3, 3>>, <<4, 3>>,
         <<5, 3>>>> @@
    5 :>
       <<<<1, 1>>, <<1, 2>>, <<1, 3>>, <<2, 1>>, <<3, 1>>, <<3, 2>>, <<3, 3>>, <<4, 3>>,
         <<5, 1>>, <<5, 2>>, <<5, 3>>>> @@
    6 :>
       <<<<1, 1>>, <<1, 2>>, <<1, 3>>, <<2, 1>>, <<3, 1>>, <<3, 2>>, <<3, 3>>, <<4, 1>>,
         <<4, 3>>, <<5, 1>>, <<5, 2>>, <<5, 3>>>> @@
    7 :>
       <<<<1, 1>>, <<1, 2>>, <<1, 3>>, <<2, 3>>, <<3, 3>>, <<4, 3>>, <<5, 3>>>> @@
    8 :>
       <<<<1, 1>>, <<1, 2>>, <<1, 3>>, <<2, 1>>, <<2, 3>>, <<3, 1>>, <<3, 2>>, <<3, 3>>,
         <<4, 1>>, <<4, 3>>, <<5, 1>>, <<5, 2>>, <<5, 3>>>> @@
    9 :>
       <<<<1, 1>>, <<1, 2>>, <<1, 3>>, <<2, 1>>, <<2, 3>>, <<3, 1>>, <<3, 2>>, <<3, 3>>,
         <<4, 3>>, <<5, 3>>>>

\* digitsLarge (lines 489-1055): glyph number -> list of <<row, col>> offsets of its "on" pixels.
digitsLarge ==
    0 :>
       <<<<1, 2>>, <<1, 3>>, <<1, 4>>, <<1, 5>>, <<1, 6>>, <<1, 7>>, <<1, 8>>, <<2, 1>>,
         <<2, 2>>, <<2, 8>>, <<2, 9>>, <<3, 1>>, <<3, 4>>, <<3, 5>>, <<3, 6>>, <<3, 9>>,
         <<3, 10>>, <<4, 1>>, <<4, 4>>, <<4, 5>>, <<4, 9>>, <<4, 10>>, <<5, 1>>, <<5, 4>>,
         <<5, 6>>, <<5, 9>>, <<5, 10>>, <<6, 1>>, <<6, 5>>, <<6, 6>>, <<6, 9>>, <<6, 10>>,
         <<7, 1>>, <<7, 4>>, <<7, 5>>, <<7, 6>>, <<7, 9>>, <<7, 10>>, <<8, 1>>, <<8, 2>>,
         <<8, 8>>, <<8, 9>>, <<8, 10>>, <<9, 2>>, <<9, 3>>, <<9, 4>>, <<9, 5>>, <<9, 6>>,
         <<9, 7>>, <<9, 8>>, <<9, 9>>, <<9, 10>>, <<10, 3>>, <<10, 4>>, <<10, 5>>,
         <<10, 6>>, <<10, 7>>, <<10, 8>>, <<10, 9>>>> @@
    1 :>
       <<<<1, 3>>, <<1, 4>>, <<1, 5>>, <<1, 6>>, <<2, 2>>, <<2, 3>>, <<2, 6>>, <<2, 7>>,
         <<3, 2>>, <<3, 6>>, <<3, 7>>, <<4, 2>>, <<4, 3>>, <<4, 6>>, <<4, 7>>, <<5, 3>>,
         <<5, 6>>, <<5, 7>>, <<6, 3>>, <<6, 6>>, <<6, 7>>, <<7, 2>>, <<7, 3>>, <<7, 6>>,
         <<7, 7>>, <<8, 1>>, <<8, 7>>, <<9, 1>>, <<9, 2>>, <<9, 3>>, <<9, 4>>, <<9, 5>>,
         <<9, 6>>, <<9, 7>>, <<10, 1>>, <<10, 2>>, <<10, 3>>, <<10, 4>>, <<10, 5>>,
         <<10, 6>>, <<10, 7>>>> @@
    2 :>
       <<<<1, 2>>, <<1, 3>>, <<1, 4>>, <<1, 5>>, <<1, 6>>, <<1, 7>>, <<1, 8>>, <<2, 2>>,
         <<2, 9>>, <<3, 1>>, <<3, 4>>, <<3, 5>>, <<3, 6>>, <<3, 9>>, <<4, 1>>, <<4, 4>>,
         <<4, 5>>, <<4, 9>>, <<5, 2>>, <<5, 3>>, <<5, 4>>, <<5, 8>>, <<5, 9>>, <<6, 3>>,
         <<6, 7>>, <<6, 8>>, <<7, 2>>, <<7, 6>>, <<7, 7>>, <<7, 8>>, <<7, 9>>, <<8, 1>>,
         <<8, 9>>, <<9, 1>>, <<9, 2>>, <<9, 3>>, <<9, 4>>, <<9, 5>>, <<9, 6>>, <<9, 7>>,
         <<9, 8>>, <<9, 9>>, <<10, 2>>, <<10, 3>>, <<10, 4>>, <<10, 5>>, <<10, 6>>,
         <<10, 7>>, <<10, 8>>>> @@
    3 :>
       <<<<1, 2>>, <<1, 3>>, <<1, 4>>, <<1, 5>>, <<1, 6>>, <<1, 7>>, <<1, 8>>, <<2, 1>>,
         <<2, 2>>, <<2, 8>>, <<2, 9>>, <<3, 1>>, <<3, 4>>, <<3, 5>>, <<3, 6>>, <<3, 9>>,
         <<4, 1>>, <<4, 2>>, <<4, 3>>, <<4, 4>>, <<4, 5>>, <<4, 6>>, <<4, 9>>, <<5, 2>>,
         <<5, 3>>, <<5, 4>>, <<5, 8>>, <<5, 9>>, <<6, 1>>, <<6, 2>>, <<6, 3>>, <<6, 4>>,
         <<6, 5>>, <<6, 6>>, <<6, 9>>, <<7, 1>>, <<7, 4>>, <<7, 5>>, <<7, 6>>, <<7, 9>>,
         <<8, 1>>, <<8, 2>>, <<8, 8>>, <<8, 9>>, <<9, 2>>, <<9, 3>>, <<9, 4>>, <<9, 5>>,
         <<9, 6>>, <<9, 7>>, <<9, 8>>, <<9, 9>>, <<10, 3>>, <<10, 4>>, <<10, 5>>,
         <<10, 6>>, <<10, 7>>, <<10, 8>>>> @@
    4 :>
       <<<<1, 5>>, <<1, 6>>, <<1, 7>>, <<1, 8>>, <<2, 4>>, <<2, 5>>, <<2, 8>>, <<2, 9>>,
         <<3, 3>>, <<3, 4>>, <<3, 8>>, <<3, 9>>, <<4, 2>>, <<4, 3>>, <<4, 8>>, <<4, 9>>,
         <<5, 1>>, <<5, 2>>, <<5, 5>>, <<5, 8>>, <<5, 9>>, <<6, 1>>, <<6, 4>>, <<6, 5>>,
         <<6, 8>>, <<6, 9>>, <<7, 1>>, <<7, 9>>, <<7, 10>>, <<8, 1>>, <<8, 2>>, <<8, 3>>,
         <<8, 4>>, <<8, 5>>, <<8, 8>>, <<8, 9>>, <<8, 10>>, <<9, 2>>, <<9, 3>>, <<9, 4>>,
         <<9, 5>>, <<9, 6>>, <<9, 7>>, <<9, 8>>, <<9, 9>>, <<9, 10>>, <<10, 6>>, <<10, 7>>,
         <<10, 8>>, <<10, 9>>>> @@
    5 :>
       <<<<1, 1>>, <<1, 2>>, <<1, 3>>, <<1, 4>>, <<1, 5>>, <<1, 6>>, <<1, 7>>, <<1, 8>>,
         <<1, 9>>, <<1, 10>>, <<2, 1>>, <<2, 9>>, <<2, 10>>, <<3, 1>>, <<3, 4>>, <<3, 5>>,
         <<3, 6>>, <<3, 7>>, <<3, 8>>, <<3, 9>>, <<3, 10>>, <<4, 1>>, <<4, 8>>, <<4, 9>>,
         <<4, 10>>, <<5, 1>>, <<5, 2>>, <<5, 3>>, <<5, 4>>, <<5, 5>>, <<5, 6>>, <<5, 9>>,
         <<5, 10>>, <<6, 1>>, <<6, 2>>, <<6, 3>>, <<6, 4>>, <<6, 5>>, <<6, 6>>, <<6, 9>>,
         <<6, 10>>, <<7, 1>>, <<7, 4>>, <<7, 5>>, <<7, 6>>, <<7, 9>>, <<7, 10>>, <<8, 1>>,
         <<8, 2>>, <<8, 8>>, <<8, 9>>, <<8, 10>>, <<9, 2>>, <<9, 3>>, <<9, 4>>, <<9, 5>>,
         <<9, 6>>, <<9, 7>>, <<9, 8>>, <<9, 9>>, <<9, 10>>, <<10, 3>>, <<10, 4>>,
         <<10, 5>>, <<10, 6>>, <<10, 7>>, <<10, 8>>, <<10, 9>>>> @@
    6 :>
       <<<<1, 3>>, <<1, 4>>, <<1, 5>>, <<1, 6>>, <<1, 7>>, <<2, 2>>, <<2, 3>>, <<2, 7>>,
         <<2, 8>>, <<3, 1>>, <<3, 2>>, <<3, 5>>, <<3, 6>>, <<3, 7>>, <<3, 8>>, <<4, 1>>,
         <<4, 4>>, <<4, 5>>, <<4, 6>>, <<4, 7>>, <<4, 8>>, <<5, 1>>, <<5, 8>>, <<5, 9>>,
         <<6, 1>>, <<6, 4>>, <<6, 5>>, <<6, 6>>, <<6, 9>>, <<6, 10>>, <<7, 1>>, <<7, 4>>,
         <<7, 5>>, <<7, 6>>, <<7, 9>>, <<7, 10>>, <<8, 1>>, <<8, 8>>, <<8, 9>>, <<8, 10>>,
         <<9, 2>>, <<9, 3>>, <<9, 4>>, <<9, 5>>, <<9, 6>>, <<9, 7>>, <<9, 8>>, <<9, 9>>,
         <<9, 10>>, <<10, 3>>, <<10, 4>>, <<10, 5>>, <<10, 6>>, <<10, 7>>, <<10, 8>>,
         <<10, 9>>>> @@
    7 :>
       <<<<1, 1>>, <<1, 2>>, <<1, 3>>, <<1, 4>>, <<1, 5>>, <<1, 6>>, <<1, 7>>, <<1, 8>>,
         <<1, 9>>, <<2, 1>>, <<2, 9>>, <<2, 10>>, <<3, 1>>, <<3, 2>>, <<3, 3>>, <<3, 4>>,
         <<3, 5>>, <<3, 8>>, <<3, 9>>, <<3, 10>>, <<4, 3>>, <<4, 4>>, <<4, 5>>, <<4, 8>>,
         <<4, 9>>, <<4, 10>>, <<5, 4>>, <<5, 7>>, <<5, 8>>, <<5, 9>>, <<6, 3>>, <<6, 4>>,
         <<6, 7>>, <<6, 8>>, <<6, 9>>, <<7, 3>>, <<7, 6>>, <<7, 7>>, <<7, 8>>, <<8, 3>>,
         <<8, 6>>, <<8, 7>>, <<8, 8>>, <<9, 3>>, <<9, 4>>, <<9, 5>>, <<9, 6>>, <<9, 7>>,
         <<10, 4>>, <<10, 5>>, <<10, 6>>, <<10, 7>>>> @@
    8 :>
       <<<<1, 2>>, <<1, 3>>, <<1, 4>>, <<1, 5>>, <<1, 6>>, <<1, 7>>, <<1, 8>>, <<2, 1>>,
         <<2, 2>>, <<2, 8>>, <<2, 9>>, <<3, 1>>, <<3, 4>>, <<3, 5>>, <<3, 6>>, <<3, 9>>,
         <<3, 10>>, <<4, 1>>, <<4, 5>>, <<4, 6>>, <<4, 9>>, <<4, 10>>, <<5, 1>>, <<5, 2>>,
         <<5, 8>>, <<5, 9>>, <<5, 10>>, <<6, 1>>, <<6, 4>>, <<6, 5>>, <<6, 9>>, <<6, 10>>,
         <<7, 1>>, <<7, 4>>, <<7, 5>>, <<7, 6>>, <<7, 9>>, <<7, 10>>, <<8, 1>>, <<8, 2>>,
         <<8, 9>>, <<8, 10>>, <<9, 2>>, <<9, 3>>, <<9, 4>>, <<9, 5>>, <<9, 6>>, <<9, 7>>,
         <<9, 8>>, <<9, 9>>, <<9, 10>>, <<10, 3>>, <<10, 4>>, <<10, 5>>, <<10, 6>>,
         <<10, 7>>, <<10, 8>>, <<10, 9>>>> @@
    9 :>
       <<<<1, 2>>, <<1, 3>>, <<1, 4>>, <<1, 5>>, <<1, 6>>, <<1, 7>>, <<1, 8>>, <<2, 1>>,
         <<2, 2>>, <<2, 9>>, <<3, 1>>, <<3, 4>>, <<3, 5>>, <<3, 6>>, <<3, 9>>, <<3, 10>>,
         <<4, 1>>, <<4, 4>>, <<4, 5>>, <<4, 6>>, <<4, 9>>, <<4, 10>>, <<5, 1>>, <<5, 2>>,
         <<5, 9>>, <<5, 10>>, <<6, 2>>, <<6, 3>>, <<6, 4>>, <<6, 5>>, <<6, 6>>, <<6, 9>>,
         <<6, 10>>, <<7, 3>>, <<7, 4>>, <<7, 5>>, <<7, 9>>, <<7, 10>>, <<8, 3>>, <<8, 8>>,
         <<8, 9>>, <<8, 10>>, <<9, 3>>, <<9, 4>>, <<9, 5>>, <<9, 6>>, <<9, 7>>, <<9, 8>>,
         <<9, 9>>, <<10, 4>>, <<10, 5>>, <<10, 6>>, <<10, 7>>, <<10, 8>>>>

\* symbols (lines 1072-1088): glyph number -> list of <<row, col>> offsets of its "on" pixels.
symbols ==
    0 :>
       <<<<1, 2>>, <<2, 1>>, <<2, 2>>, <<2, 3>>, <<3, 1>>, <<4, 1>>, <<4, 2>>, <<4, 3>>,
         <<5, 3>>, <<6, 1>>, <<6, 2>>, <<6, 3>>, <<7, 2>>>>

\* symbolsLarge (lines 1090-1135): glyph number -> list of <<row, col>> offsets of its "on" pixels.
symbolsLarge ==
    0 :>
       <<<<1, 4>>, <<1, 5>>, <<1, 6>>, <<1, 7>>, <<2, 3>>, <<2, 4>>, <<2, 7>>, <<2, 8>>,
         <<3, 2>>, <<3, 9>>, <<4, 2>>, <<4, 9>>, <<5, 2>>, <<5, 4>>, <<5, 5>>, <<5, 6>>,
         <<5, 7>>, <<5, 8>>, <<5, 9>>, <<6, 2>>, <<6, 9>>, <<7, 2>>, <<7, 9>>, <<8, 2>>,
         <<8, 3>>, <<8, 4>>, <<8, 5>>, <<8, 6>>, <<8, 7>>, <<8, 9>>, <<9, 2>>, <<9, 9>>,
         <<10, 2>>, <<10, 9>>, <<11, 3>>, <<11, 4>>, <<11, 7>>, <<11, 8>>, <<12, 4>>,
         <<12, 5>>, <<12, 6>>, <<12, 7>>>>

\* digitsWidths (lines 476-487): digit -> declared display width.
digitsWidths ==
    0 :> 3 @@ 1 :> 1 @@ 2 :> 3 @@ 3 :> 3 @@ 4 :> 3 @@ 5 :> 3 @@ 6 :> 3 @@ 7 :> 3 @@ 8 :> 3 @@ 9 :> 3

\* digitsLargeWidths (lines 1057-1068): digit -> declared display width.
digitsLargeWidths ==
    0 :> 7 @@ 1 :> 6 @@ 2 :> 7 @@ 3 :> 7 @@ 4 :> 7 @@ 5 :> 7 @@ 6 :> 7 @@ 7 :> 7 @@ 8 :> 7 @@ 9 :> 7

\* digitsDoubledWidths (lines 1155-1166): digit -> declared display width.
digitsDoubledWidths ==
    0 :> 6 @@ 1 :> 2 @@ 2 :> 6 @@ 3 :> 6 @@ 4 :> 6 @@ 5 :> 6 @@ 6 :> 6 @@ 7 :> 6 @@ 8 :> 6 @@ 9 :> 6
symbolsLargeWidth == 9
symbolsLargeHeight == 12
symbolDoubledWidth == 6

\* The flatMap of createDoubledDigits and createDoubledSymbol (lines 1143-1148
\* and 1170-1175): each pixel becomes the 2 x 2 block of pixels
\* (2r-1, 2c-1), (2r-1, 2c), (2r, 2c-1), (2r, 2c), in that order.
Doubled(coords) ==
    [k \in 1..(4 * Len(coords)) |->
        LET p == coords[((k - 1) \div 4) + 1]
            q == (k - 1) % 4
        IN  <<p[1] * 2 - 1 + (q \div 2), p[2] * 2 - 1 + (q % 2)>>]

\* digitsDoubled (lines 1140-1153) and symbolDoubled (lines 1169-1178).
digitsDoubled == [d \in DOMAIN digits |-> Doubled(digits[d])]
symbolDoubled == Doubled(symbols[0])

(***************************************************************************)
(* Numbers to digit strings.                                               *)
(***************************************************************************)
\* The decimal digits of a non-negative integer n, most significant first.
RECURSIVE ToDigits(_)
ToDigits(n) == IF n < 10 THEN <<n>> ELSE ToDigits(n \div 10) \o <<n % 10>>

\* Math.floor(x) for x = NaN (lines 201, 1270).
NaN == -2

\* A character that is no decimal digit: Number() of it is NaN, which is a
\* key of no glyph table (lines 1202-1203, 1224, 1246-1247, 1279, 1307-1308).
NotADigit == -1

\* String(n) (lines 152, 229, 271, 1270).
StringOf(n) == IF n = NaN THEN <<NotADigit, NotADigit, NotADigit>> ELSE ToDigits(n)

\* Mutant of InGrid: the check of the right and bottom edge is missing.
InGridNoUpperCheck(g, cellRow, cellCol) == cellCol >= 0 /\ cellRow >= 0

(***************************************************************************)
(* The pattern stamper (lines 1181-1322).                                  *)
(*                                                                         *)
(* A stamping function works on a record                                   *)
(*   [grid  |-> the grid array it mutates,                                 *)
(*    cells |-> the list it pushes the written cells to,                  *)
(*    error |-> TRUE once a statement has thrown].                         *)
(***************************************************************************)
\* The bounds check in front of every write (lines 1193, 1207, 1237, 1251,
\* 1296, 1312).
InGrid(g, cellRow, cellCol) ==
    cellCol >= 0 /\ cellRow >= 0 /\ cellCol < NumCols(g) /\ cellRow < NumRows(g)

\* The assignment grid[cellRow][cellCol] = state.  In JavaScript grid[cellRow]
\* is undefined for a row that does not exist and the assignment throws;
\* assigning to a column that does not exist creates it, so that the row no
\* longer has NumCols cells.
WriteCell(acc, cellRow, cellCol, state) ==
    IF acc.error THEN acc
    ELSE IF cellRow \notin DOMAIN acc.grid THEN [acc EXCEPT !.error = TRUE]
    ELSE IF cellCol \in DOMAIN acc.grid[cellRow]
         THEN [acc EXCEPT !.grid[cellRow][cellCol] = state]
         ELSE [acc EXCEPT !.grid[cellRow] = (cellCol :> state) @@ @]

\* Mutant of StampPixel: a cell that is already protected is left alone.
StampPixelKeepProtected(acc, cellRow, cellCol, state) ==
    IF InGrid(acc.grid, cellRow, cellCol)
       /\ ~IsProtected(acc.grid[cellRow][cellCol])
    THEN [WriteCell(acc, cellRow, cellCol, state) EXCEPT
              !.cells = Append(@, [row |-> cellRow, col |-> cellCol])]
    ELSE acc

\* The body of a pixel loop (lines 1193-1196): check, write, push.
StampPixel(acc, cellRow, cellCol, state) ==
    IF acc.error THEN acc
    ELSE IF InGrid(acc.grid, cellRow, cellCol)
    THEN LET w == WriteCell(acc, cellRow, cellCol, state)
         IN  IF w.error THEN w
             ELSE [w EXCEPT !.cells = Append(@, [row |-> cellRow, col |-> cellCol])]
    ELSE acc

\* The pixels lo..hi of a glyph, in order (lines 1190-1197): the loop over
\* lo..hi is the loop over its first half followed by the loop over its
\* second half.
RECURSIVE StampPixels(_, _, _, _, _, _, _)
StampPixels(acc, glyph, lo, hi, rowShift, colShift, state) ==
    Strict(acc, LAMBDA a :
        IF a.error \/ lo > hi THEN a
        ELSE IF lo = hi
        THEN StampPixel(a, glyph[lo][1] + rowShift, glyph[lo][2] + colShift, state)
        ELSE StampPixels(StampPixels(a, glyph, lo, (lo + hi) \div 2, rowShift,
                                     colShift, state),
                         glyph, (lo + hi) \div 2 + 1, hi, rowShift, colShift, state))

\* One glyph, from pixel k on: for (const [row, col] of glyph) with
\* cellRow = row + rowShift and cellCol = col + colShift (lines 1190-1197).
StampGlyph(acc, glyph, k, rowShift, colShift, state) ==
    StampPixels(acc, glyph, k, Len(glyph), rowShift, colShift, state)

\* (widths[d] || dflt) + 1: the column advance after a digit (lines 1213,
\* 1257, 1318).
Advance(widths, d, dflt) ==
    (IF d \in DOMAIN widths /\ widths[d] # 0 THEN widths[d] ELSE dflt) + 1

\* The digit loop (lines 1201-1214, 1245-1258, 1306-1319): digit i is drawn
\* from `table` at column currentCol, which then advances.
RECURSIVE StampDigits(_, _, _, _, _, _, _, _, _)
StampDigits(acc, digit, i, table, widths, dflt, rowShift, currentCol, state) ==
    Strict(acc, LAMBDA a :
        IF a.error \/ i > Len(digit) THEN a
        ELSE LET currentDigit == digit[i]
                 drawn == IF currentDigit \in DOMAIN table
                          THEN StampGlyph(a, table[currentDigit], 1, rowShift,
                                          currentCol, state)
                          ELSE a
             IN  StampDigits(drawn, digit, i + 1, table, widths, dflt, rowShift,
                             currentCol + Advance(widths, currentDigit, dflt), state))

\* setDigitAsPending (lines 1181-1215).
setDigitAsPending(g, digit, startRow, startCol, pendingCells) ==
    LET acc    == [grid |-> g, cells |-> pendingCells, error |-> FALSE]
        symbol == StampGlyph(acc, symbols[0], 1, startRow - 1, startCol, PENDING)
    IN  StampDigits(symbol, digit, 1, digits, digitsWidths, 3, startRow,
                    startCol + 4, PENDING)

\* totalWidth of setLargeDigitsAsInitial and setTotalAsImmune (lines
\* 1222-1227 and 1277-1282): the symbol, the digits and the spacing between
\* them.
RECURSIVE SumAdvance(_, _, _, _)
SumAdvance(digit, i, widths, dflt) ==
    IF i > Len(digit) THEN 0
    ELSE Advance(widths, digit[i], dflt) + SumAdvance(digit, i + 1, widths, dflt)

\* Mutant of TotalWidth: the spacing after the last glyph is not taken back.
TotalWidthTrailingSpace(symbolWidth, digit, widths, dflt) ==
    symbolWidth + 1 + SumAdvance(digit, 1, widths, dflt)

TotalWidth(symbolWidth, digit, widths, dflt) ==
    symbolWidth + 1 + SumAdvance(digit, 1, widths, dflt) - 1

\* setLargeDigitsAsInitial (lines 1217-1259).
setLargeDigitsAsInitial(g, digit, pendingCells) ==
    LET digitHeight       == 12
        dollarDigitOffset == (symbolsLargeHeight - digitHeight) \div 2
        totalWidth        == TotalWidth(symbolsLargeWidth, digit, digitsLargeWidths, 7)
        startRow          == (ROWS - symbolsLargeHeight) \div 2
        startCol          == (COLS - totalWidth) \div 2
        acc    == [grid |-> g, cells |-> pendingCells, error |-> FALSE]
        symbol == StampGlyph(acc, symbolsLarge[0], 1, startRow - 2, startCol, INITIAL)
    IN  StampDigits(symbol, digit, 1, digitsLarge, digitsLargeWidths, 7,
                    startRow - 1 + dollarDigitOffset,
                    startCol + symbolsLargeWidth + 1, INITIAL)

\* Mutant of ClearCell: a previous cell is cleared only while it is still
\* IMMUNE.
ClearCellStillImmune(g, cell) ==
    IF InGrid(g, cell.row, cell.col) /\ g[cell.row][cell.col] = IMMUNE
    THEN [g EXCEPT ![cell.row][cell.col] = DEAD]
    ELSE g

\* The body of the clearing loop of setTotalAsImmune (lines 1264-1266).
ClearCell(g, cell) ==
    IF InGrid(g, cell.row, cell.col)
    THEN [g EXCEPT ![cell.row][cell.col] = DEAD]
    ELSE g

\* The clearing loop over the cells lo..hi of the previous list, in order:
\* its first half, then its second half.
RECURSIVE ClearRange(_, _, _, _)
ClearRange(g, previousImmuneCells, lo, hi) ==
    Strict(g, LAMBDA h :
        IF lo > hi THEN h
        ELSE IF lo = hi THEN ClearCell(h, previousImmuneCells[lo])
        ELSE ClearRange(ClearRange(h, previousImmuneCells, lo, (lo + hi) \div 2),
                        previousImmuneCells, (lo + hi) \div 2 + 1, hi))

\* Mutant of ClearCells: the previous rendering is not cleared.
ClearCellsSkipped(g, previousImmuneCells, k) == g

\* The clearing loop of setTotalAsImmune (lines 1263-1267), from cell k on.
ClearCells(g, previousImmuneCells, k) ==
    ClearRange(g, previousImmuneCells, k, Len(previousImmuneCells))

\* setTotalAsImmune (lines 1261-1322); .cells is the list it returns.
setTotalAsImmune(g, total, previousImmuneCells) ==
    LET digit            == StringOf(total)
        dollarSignHeight == 14
        digitHeight      == 10
        totalHeight      == IF dollarSignHeight > digitHeight
                            THEN dollarSignHeight ELSE digitHeight
        totalWidth       == TotalWidth(symbolDoubledWidth, digit, digitsDoubledWidths, 6)
        paddingRight     == 1
        paddingBottom    == 1
        startRow         == ROWS - totalHeight - paddingBottom
        startCol         == COLS - totalWidth - paddingRight
        digitVerticalOffset == (dollarSignHeight - digitHeight) \div 2
        acc    == [grid  |-> ClearCells(g, previousImmuneCells, 1),
                   cells |-> <<>>, error |-> FALSE]
        symbol == StampGlyph(acc, symbolDoubled, 1, startRow - 1, startCol - 1, IMMUNE)
    IN  StampDigits(symbol, digit, 1, digitsDoubled, digitsDoubledWidths, 6,
                    startRow - 1 + digitVerticalOffset,
                    startCol + symbolDoubledWidth + 1 - 1, IMMUNE)

(***************************************************************************)
(* State of the component ConwaysGameOfLife (lines 58-69).                 *)
(***************************************************************************)
VARIABLES
    grid,                  \* gridRef.current
    pendingCells,          \* pendingCellsRef.current: list of [row, col]
    immuneCells,           \* immuneCellsRef.current: list of [row, col]
    hasShownInitialTotal,  \* hasShownInitialTotal.current
    lastUpdate,            \* lastUpdateRef.current
    lastDisplayedTotal,    \* lastDisplayedTotal.current
    targetTotal,           \* targetTotal.current
    tween,                 \* tweenIntervalRef.current: an interval id, or NoTween
    intervals,             \* the intervals setInterval has created, by id
    search,                \* the placement search of the donation listener
    timers,                \* the pending setTimeout callbacks, oldest first
    now,                   \* the clock, in milliseconds
    lastFrame,             \* timestamp of the latest animation frame
    counts,                \* how often the clock advanced, the total changed,
                           \* the total changed to a non-zero amount, and a
                           \* donation arrived
    generation,            \* history: number of generation steps taken
    last                   \* history: the latest operation, what it was given
                           \* and what it returned

vars == <<grid, pendingCells, immuneCells, hasShownInitialTotal, lastUpdate,
          lastDisplayedTotal, targetTotal, tween, intervals, search, timers, now,
          lastFrame, counts,
          generation, last>>

\* The history record of an operation.
Op(name, before, inputAfter, digit, anchor, given, cells, error, t, prevUpdate, n) ==
    [op         |-> name,        \* the operation
     before     |-> before,      \* the grid it was given
     inputAfter |-> inputAfter,  \* the array it was given, after the call
     digit      |-> digit,       \* the digit string stamped
     anchor     |-> anchor,      \* <<startRow, startCol>> of setDigitAsPending
     given      |-> given,       \* the list passed in
     cells      |-> cells,       \* the list after the call
     error      |-> error,       \* a statement of the call threw
     t          |-> t,           \* the frame timestamp of gameLoop
     prevUpdate |-> prevUpdate,  \* lastUpdateRef.current before the frame
     n          |-> n]           \* updateGrid calls of the frame; samples of
                                 \* the placement search

NoOp(g) == Op("none", g, g, <<>>, <<0, 0>>, <<>>, <<>>, FALSE, 0, 0, 0)

\* tweenIntervalRef.current is null (line 69); the ids of intervals start at 1.
NoTween == 0

\* No donation listener is running (lines 259-262 declare its variables).
NoSearch ==
    [active |-> FALSE, rawAmount |-> [whole |-> 0, frac |-> FALSE],
     startX |-> 0, startY |-> 0, attempts |-> 0]

\* The refs after construction (lines 59-69), with the given grid and lists,
\* at time t.
Constructed(g, pending, immune, t) ==
    /\ grid = g
    /\ pendingCells = pending
    /\ immuneCells = immune
    /\ hasShownInitialTotal = FALSE
    /\ lastUpdate = 0
    /\ lastDisplayedTotal = -1
    /\ targetTotal = 0
    /\ tween = NoTween
    /\ intervals = <<>>
    /\ search = NoSearch
    /\ timers = <<>>
    /\ now = t
    /\ lastFrame = 0
    /\ counts = [ticks |-> 0, totals |-> 0, nonzero |-> 0, donations |-> 0]
    /\ generation = 0
    /\ last = NoOp(g)

(***************************************************************************)
(* SpecLife: updateGrid applied to grids drawn from a bounded family.      *)
(***************************************************************************)
\* The kind of protected cell the families put at (r, c).
ProtectedAt(r, c) ==
    IF (r + c) % 3 = 0 THEN PENDING ELSE IF (r + c) % 3 = 1 THEN INITIAL ELSE IMMUNE

\* A mark 0, 1, 2 as the cell state DEAD, ALIVE, protected at (r, c).
Marked(m, r, c) == IF m = 2 THEN ProtectedAt(r, c) ELSE m

LifeCells == (0..(LifeRows - 1)) \X (0..(LifeCols - 1))

\* Window family: the grid is DEAD outside the 3 x 3 neighbourhood of the cell
\* (r0, c0); inside it every cell is DEAD, ALIVE or protected, in every
\* combination (w maps an offset to a mark).
WindowGrid(r0, c0, w) ==
    [r \in 0..(LifeRows - 1) |->
        [c \in 0..(LifeCols - 1) |->
            IF <<r - r0, c - c0>> \in DOMAIN w
            THEN Marked(w[<<r - r0, c - c0>>], r, c)
            ELSE DEAD]]

\* The neighbourhoods of the window family: in the top left corner, in the
\* middle of the top band, in the bottom right corner.
WindowCentres ==
    {<<1, 1>>, <<1, LifeCols \div 2>>, <<LifeRows - 2, LifeCols - 2>>}

\* Border family: every cell of the first and last row, or of the first and
\* last column, is DEAD or ALIVE in every combination; the rest is DEAD.
BorderRowsGrid(top, bottom) ==
    [r \in 0..(LifeRows - 1) |->
        [c \in 0..(LifeCols - 1) |->
            IF r = 0 THEN top[c] ELSE IF r = LifeRows - 1 THEN bottom[c] ELSE DEAD]]

BorderColsGrid(left, right) ==
    [r \in 0..(LifeRows - 1) |->
        [c \in 0..(LifeCols - 1) |->
            IF c = 0 THEN left[r] ELSE IF c = LifeCols - 1 THEN right[r] ELSE DEAD]]

\* Block family: a 2 x 2 block of ALIVE cells with its top left cell at
\* (r0, c0) in a DEAD grid, and two further cells a and b with any mark.
BlockGrid(r0, c0, a, ma, b, mb) ==
    [r \in 0..(LifeRows - 1) |->
        [c \in 0..(LifeCols - 1) |->
            IF r \in {r0, r0 + 1} /\ c \in {c0, c0 + 1} THEN ALIVE
            ELSE IF <<r, c>> = a THEN Marked(ma, r, c)
            ELSE IF <<r, c>> = b THEN Marked(mb, r, c)
            ELSE DEAD]]

InitWindow ==
    \E centre \in WindowCentres, w \in [(-1..1) \X (-1..1) -> 0..2] :
        Constructed(WindowGrid(centre[1], centre[2], w), <<>>, <<>>, 0)

InitBorder ==
    \/ \E top \in [0..(LifeCols - 1) -> {DEAD, ALIVE}],
          bottom \in [0..(LifeCols - 1) -> {DEAD, ALIVE}] :
            Constructed(BorderRowsGrid(top, bottom), <<>>, <<>>, 0)
    \/ \E left \in [0..(LifeRows - 1) -> {DEAD, ALIVE}],
          right \in [0..(LifeRows - 1) -> {DEAD, ALIVE}] :
            Constructed(BorderColsGrid(left, right), <<>>, <<>>, 0)

InitBlock ==
    \E r0 \in 0..(LifeRows - 2), c0 \in 0..(LifeCols - 2),
       a \in LifeCells, b \in LifeCells, ma \in 0..2, mb \in 0..2 :
        Constructed(BlockGrid(r0, c0, a, ma, b, mb), <<>>, <<>>, 0)

InitLife == InitWindow \/ InitBorder \/ InitBlock

\* One application of updateGrid to the current grid.
ApplyUpdateGrid ==
    /\ generation < MaxGen
    /\ \E arrays \in {updateGridArrays(grid, RowMajor(grid))} :
           /\ grid' = arrays.newGrid
           /\ last' = Op("updateGrid", grid, arrays.grid, <<>>, <<0, 0>>, <<>>, <<>>,
                         FALSE, 0, 0, 1)
    /\ generation' = generation + 1
    /\ UNCHANGED <<pendingCells, immuneCells, hasShownInitialTotal, lastUpdate,
                   lastDisplayedTotal, targetTotal, tween, intervals, search, timers, now, lastFrame,
                   counts>>

NextLife == ApplyUpdateGrid

SpecLife == InitLife /\ [][NextLife]_vars

(***************************************************************************)
(* SpecStamp: one call of a stamping function on a ROWS x COLS grid, with  *)
(* the grid, the amount and the anchor drawn from bounded sets.            *)
(***************************************************************************)
\* A grid that holds every cell state: the state of (r, c) is (r + 2c) mod 5.
MixedGrid == [r \in 0..(ROWS - 1) |-> [c \in 0..(COLS - 1) |-> (r + 2 * c) % 5]]

\* A list that holds two cells already: the first and the last cell of the grid.
SomeCells == <<[row |-> 0, col |-> 0], [row |-> ROWS - 1, col |-> COLS - 1]>>

\* The component with one of two grids and tracked lists.
InitStamp ==
    \E mixed \in BOOLEAN :
        IF mixed THEN Constructed(MixedGrid, SomeCells, SomeCells, 0)
        ELSE Constructed(setupGrid, <<>>, <<>>, 0)

AnchorRows == (-AnchorMargin)..(ROWS - 1 + AnchorMargin)
AnchorCols == (-AnchorMargin)..(COLS - 1 + AnchorMargin)

\* setDigitAsPending(gridRef.current, String(n), startRow, startCol, pendingCells).
CallSetDigitAsPending ==
    /\ last.op = "none"
    /\ \E n \in 0..MaxAmount, startRow \in AnchorRows, startCol \in AnchorCols :
        \E res \in {setDigitAsPending(grid, ToDigits(n), startRow, startCol, pendingCells)} :
            /\ grid' = res.grid
            /\ pendingCells' = res.cells
            /\ last' = Op("setDigitAsPending", grid, grid, ToDigits(n),
                          <<startRow, startCol>>, pendingCells, res.cells, res.error,
                          0, 0, 0)
    /\ UNCHANGED <<immuneCells, hasShownInitialTotal, lastUpdate, lastDisplayedTotal,
                   targetTotal, tween, intervals, search, timers, now, lastFrame, counts, generation>>

\* setLargeDigitsAsInitial(gridRef.current, String(n), pendingCells).
CallSetLargeDigitsAsInitial ==
    /\ last.op = "none"
    /\ \E n \in 0..MaxAmount :
        \E res \in {setLargeDigitsAsInitial(grid, ToDigits(n), pendingCells)} :
            /\ grid' = res.grid
            /\ pendingCells' = res.cells
            /\ last' = Op("setLargeDigitsAsInitial", grid, grid, ToDigits(n), <<0, 0>>,
                          pendingCells, res.cells, res.error, 0, 0, 0)
    /\ UNCHANGED <<immuneCells, hasShownInitialTotal, lastUpdate, lastDisplayedTotal,
                   targetTotal, tween, intervals, search, timers, now, lastFrame, counts, generation>>

\* immuneCellsRef.current = setTotalAsImmune(gridRef.current, n, immuneCellsRef.current).
CallSetTotalAsImmune ==
    /\ last.op = "none"
    /\ \E n \in 0..MaxAmount :
        \E res \in {setTotalAsImmune(grid, n, immuneCells)} :
            /\ grid' = res.grid
            /\ immuneCells' = res.cells
            /\ last' = Op("setTotalAsImmune", grid, grid, ToDigits(n), <<0, 0>>,
                          immuneCells, res.cells, res.error, 0, 0, 0)
    /\ UNCHANGED <<pendingCells, hasShownInitialTotal, lastUpdate, lastDisplayedTotal,
                   targetTotal, tween, intervals, search, timers, now, lastFrame, counts, generation>>

NextStamp ==
    \/ CallSetDigitAsPending
    \/ CallSetLargeDigitsAsInitial
    \/ CallSetTotalAsImmune

SpecStamp == InitStamp /\ [][NextStamp]_vars
(***************************************************************************)
(* Spec: the component (lines 58-285).  The clock, the animation frames,   *)
(* the total replicant, the donation events and the timers are its         *)
(* environment.                                                            *)
(***************************************************************************)
\* A raw amount (total.raw, donation.rawAmount): its whole part and whether
\* it has a fractional part.  Math.floor gives the whole part (lines 152,
\* 171, 229); the amount is truthy unless it is exactly zero (line 149).
Amounts == [whole : 0..MaxWhole, frac : BOOLEAN]

ZeroAmount == [whole |-> 0, frac |-> FALSE]

\* donation.rawAmount of a donation that has none: undefined.
MissingAmount == [whole |-> NaN, frac |-> FALSE]

floor(raw) == raw.whole

Truthy(raw) == raw.whole # 0 \/ raw.frac

\* The value of the total replicant: null (line 59) or an object with a raw
\* amount.
NullTotal == [null |-> TRUE, raw |-> [whole |-> 0, frac |-> FALSE]]

Totals == {NullTotal} \cup {[null |-> FALSE, raw |-> a] : a \in Amounts}

\* m generation steps in a row.
RECURSIVE Generations(_, _)
Generations(g, m) ==
    IF m = 0 THEN g
    ELSE LET h == updateGrid(g)
         IN  IF h = g THEN g ELSE Generations(h, m - 1)

\* Mutant of gameLoopBody: the frame catches up on every interval that has
\* elapsed.
gameLoopBodyCatchUp(g, lastUpd, timestamp) ==
    LET k == (timestamp - lastUpd) \div GAME_SPEED
    IN  [grid |-> Generations(g, k), lastUpdate |-> lastUpd + k * GAME_SPEED,
         calls |-> k]

\* The body of gameLoop (lines 131-134): the grid and lastUpdateRef.current
\* after the frame, and the number of calls of updateGrid.
gameLoopBody(g, lastUpd, timestamp) ==
    IF timestamp - lastUpd >= GAME_SPEED
    THEN [grid |-> updateGrid(g), lastUpdate |-> timestamp, calls |-> 1]
    ELSE [grid |-> g, lastUpdate |-> lastUpd, calls |-> 0]

\* gameLoop (lines 130-137): the animation frame at the current time.
gameLoop ==
    /\ now > lastFrame
    /\ lastFrame' = now
    /\ \E f \in {gameLoopBody(grid, lastUpdate, now)} :
        /\ lastUpdate' = f.lastUpdate
        /\ generation' = generation + f.calls
        /\ grid' = f.grid
        /\ last' = Op("gameLoop", grid, grid, <<>>, <<0, 0>>, <<>>, <<>>, FALSE,
                      now, lastUpdate, f.calls)
    /\ UNCHANGED <<pendingCells, immuneCells, hasShownInitialTotal,
                   lastDisplayedTotal, targetTotal, tween, intervals, search, timers, now, counts>>

\* Mutant of TimersFor: the delay grows by a millisecond from cell to cell.
TimersForStaggered(cells, state, duration) ==
    [k \in 1..Len(cells) |->
        [row |-> cells[k].row, col |-> cells[k].col, state |-> state,
         due |-> now + duration + k - 1]]

\* Mutant of TimersFor: only the first cell of the list gets a timer.
TimersForFirstCell(cells, state, duration) ==
    [k \in 1..(IF cells = <<>> THEN 0 ELSE 1) |->
        [row |-> cells[k].row, col |-> cells[k].col, state |-> state,
         due |-> now + duration]]

\* The setTimeout calls of a stamp (lines 154-164 and 273-283): one timer for
\* each cell of the list, due after `duration`.
TimersFor(cells, state, duration) ==
    [k \in 1..Len(cells) |->
        [row |-> cells[k].row, col |-> cells[k].col, state |-> state,
         due |-> now + duration]]

\* The timer to run next: the earliest due, the oldest among those.
NextTimer ==
    CHOOSE i \in 1..Len(timers) :
        /\ \A j \in 1..Len(timers) : timers[i].due <= timers[j].due
        /\ \A j \in 1..(i - 1) : timers[j].due > timers[i].due

Without(s, i) == [k \in 1..(Len(s) - 1) |-> IF k < i THEN s[k] ELSE s[k + 1]]

\* pendingCellsRef.current.filter(...) (lines 159-161 and 278-280).
\* Mutant of FilterOut: only the first entry with the coordinate is removed.
FilterOutFirst(cells, row, col) ==
    LET hit == {k \in DOMAIN cells : cells[k].row = row /\ cells[k].col = col}
    IN  IF hit = {} THEN cells
        ELSE LET first == CHOOSE k \in hit : \A m \in hit : k <= m
             IN  SubSeq(cells, 1, first - 1) \o SubSeq(cells, first + 1, Len(cells))

FilterOut(cells, row, col) ==
    SelectSeq(cells, LAMBDA c : ~(c.row = row /\ c.col = col))

\* Mutant of ExpiredCell: the callback does not look at the state of its
\* cell.
ExpiredCellUnguarded(g, cell) == [g EXCEPT ![cell.row][cell.col] = ALIVE]

\* Lines 156-158 and 275-277: the cell becomes ALIVE if it still holds the
\* state it was stamped with.
ExpiredCell(g, cell) ==
    IF g[cell.row][cell.col] = cell.state
    THEN [g EXCEPT ![cell.row][cell.col] = ALIVE]
    ELSE g

\* The callback of a cell's timer (lines 155-162 and 274-281).
TimerFire ==
    /\ timers # <<>>
    /\ LET i    == NextTimer
           cell == timers[i]
       IN  /\ cell.due <= now
           /\ grid' = ExpiredCell(grid, cell)
           /\ pendingCells' = FilterOut(pendingCells, cell.row, cell.col)
           /\ timers' = Without(timers, i)
           /\ last' = Op("timer", grid, grid', <<>>, <<cell.row, cell.col>>,
                         pendingCells, pendingCells', FALSE, now, cell.due,
                         cell.state)
    /\ UNCHANGED <<immuneCells, hasShownInitialTotal, lastUpdate,
                   lastDisplayedTotal, targetTotal, tween, intervals, search, now, lastFrame, counts,
                   generation>>

\* Every callback that is due runs, oldest first (lines 155-162 and
\* 274-281): a cell becomes ALIVE when it holds the state one of its due
\* timers was set up for, and the tracked list loses the coordinates of the
\* due timers.
TimersRun ==
    /\ {k \in DOMAIN timers : timers[k].due <= now} # {}
    /\ LET due == {k \in DOMAIN timers : timers[k].due <= now}
       IN  /\ grid' = [r \in DOMAIN grid |-> [c \in DOMAIN grid[r] |->
                          IF \E k \in due : /\ timers[k].row = r
                                            /\ timers[k].col = c
                                            /\ timers[k].state = grid[r][c]
                          THEN ALIVE ELSE grid[r][c]]]
           /\ pendingCells' = SelectSeq(pendingCells,
                  LAMBDA c : ~\E k \in due : timers[k].row = c.row /\ timers[k].col = c.col)
           /\ timers' = SelectSeq(timers, LAMBDA t : t.due > now)
           /\ last' = Op("timers", grid, grid', <<>>, <<0, 0>>, pendingCells,
                         pendingCells', FALSE, now, 0, Cardinality(due))
    /\ UNCHANGED <<immuneCells, hasShownInitialTotal, lastUpdate,
                   lastDisplayedTotal, targetTotal, tween, intervals, search, now,
                   lastFrame, counts, generation>>

Abs(x) == IF x < 0 THEN -x ELSE x
Min(x, y) == IF x < y THEN x ELSE y
Max(x, y) == IF x > y THEN x ELSE y

\* duration, steps and stepDuration of the count-up (lines 191-193).  The
\* delay of setInterval is an integer number of milliseconds; the quotient by
\* zero steps is Infinity, which setInterval takes as zero.
Duration(difference) == Min(2000, Max(500, Abs(difference) * 2))
Steps(difference) == Min(60, Abs(difference))
StepDuration(difference) ==
    IF Steps(difference) = 0 THEN 0
    ELSE Duration(difference) \div Steps(difference)

\* displayValue (lines 198-201):
\* Math.floor(startValue + difference * (1 - (1 - currentStep / steps)^3)),
\* in exact arithmetic, for steps > 0.
DisplayValue(startValue, difference, steps, currentStep) ==
    LET cube == steps * steps * steps
        rest == (steps - currentStep) * (steps - currentStep) * (steps - currentStep)
    IN  startValue + ((difference * (cube - rest)) \div cube)

\* Mutant of clearInterval: the interval keeps running.
clearIntervalIgnored(ivs, id) == ivs

\* clearInterval(id): the interval stops; an id of no interval is ignored.
clearInterval(ivs, id) ==
    IF id \in DOMAIN ivs THEN [ivs EXCEPT ![id].active = FALSE] ELSE ivs

\* Mutant of ShowInitial: the effect does not look at hasShownInitialTotal.
ShowInitialEveryTime(total, shown) == ~total.null /\ Truthy(total.raw)

\* The condition of the initial-total effect (line 149).
ShowInitial(total, shown) == ~total.null /\ Truthy(total.raw) /\ ~shown

\* The effects of a changed total (lines 148-167 and 170-225), the cleanup
\* of the previous run (lines 220-224) first.  The clearInterval calls of
\* the cleanup and of lines 177-179 leave the ref as it is.
TotalChanged(total) ==
    /\ counts.totals < MaxTotalEvents
    /\ counts' = [counts EXCEPT !.totals = @ + 1,
                                !.nonzero = IF total.null \/ total.raw = ZeroAmount
                                            THEN @ ELSE @ + 1]
    /\ LET showInitial == ShowInitial(total, hasShownInitialTotal)
           initial  == IF showInitial
                       THEN setLargeDigitsAsInitial(grid, StringOf(floor(total.raw)), <<>>)
                       ELSE [grid |-> grid, cells |-> <<>>, error |-> FALSE]
           cleaned  == IF tween # NoTween THEN clearInterval(intervals, tween)
                       ELSE intervals
           newTotal == IF total.null THEN 0 ELSE floor(total.raw)
           changed  == newTotal # targetTotal
           first    == changed /\ lastDisplayedTotal = -1
           immune   == IF first
                       THEN setTotalAsImmune(initial.grid, newTotal, immuneCells)
                       ELSE [grid |-> initial.grid, cells |-> immuneCells, error |-> FALSE]
           difference == newTotal - lastDisplayedTotal
           stopped  == IF changed /\ tween # NoTween THEN clearInterval(cleaned, tween)
                       ELSE cleaned
       IN  /\ hasShownInitialTotal' = (hasShownInitialTotal \/ showInitial)
           /\ timers' = timers \o TimersFor(initial.cells, INITIAL, INITIAL_TOTAL_DURATION)
           /\ pendingCells' = pendingCells \o initial.cells
           /\ targetTotal' = newTotal
           /\ lastDisplayedTotal' = IF first THEN newTotal ELSE lastDisplayedTotal
           /\ grid' = immune.grid
           /\ immuneCells' = immune.cells
           /\ intervals' = IF changed /\ ~first
                           THEN Append(stopped,
                                       [active |-> TRUE,
                                        startValue |-> lastDisplayedTotal,
                                        endValue |-> newTotal,
                                        steps |-> Steps(difference),
                                        stepDuration |-> StepDuration(difference),
                                        due |-> now + StepDuration(difference),
                                        currentStep |-> 0])
                           ELSE stopped
           /\ tween' = IF changed /\ ~first THEN Len(stopped) + 1 ELSE tween
           /\ last' = Op("total", grid, initial.grid, StringOf(newTotal),
                         <<tween, Len(intervals)>>,
                         immuneCells, initial.cells, FALSE, now, lastDisplayedTotal,
                         IF showInitial THEN 1 ELSE 0)
    /\ UNCHANGED <<lastUpdate, now, lastFrame, generation, search>>

\* The callback of the count-up interval id (lines 196-217).  currentStep,
\* steps, startValue and endValue are those of the effect run that created
\* the interval; lines 212-215 clear the interval the ref holds.
TweenTick(id) ==
    /\ intervals[id].active
    /\ intervals[id].due <= now
    /\ intervals[id].currentStep <= intervals[id].steps
    /\ LET tw           == intervals[id]
           currentStep  == tw.currentStep + 1
           difference   == tw.endValue - tw.startValue
           displayValue == IF tw.steps = 0 THEN NaN
                           ELSE DisplayValue(tw.startValue, difference,
                                             tw.steps, currentStep)
           finished == currentStep >= tw.steps
           stepped  == [intervals EXCEPT ![id].currentStep = currentStep,
                                         ![id].due = now + tw.stepDuration]
       IN  /\ lastDisplayedTotal' = IF finished THEN tw.endValue ELSE displayValue
           /\ intervals' = IF finished /\ tween # NoTween
                           THEN clearInterval(stepped, tween) ELSE stepped
           /\ tween' = IF finished THEN NoTween ELSE tween
           /\ \E shown \in {IF displayValue # lastDisplayedTotal
                             THEN setTotalAsImmune(grid, displayValue, immuneCells)
                             ELSE [grid |-> grid, cells |-> immuneCells,
                                   error |-> FALSE]} :
               \E final \in {IF finished
                             THEN setTotalAsImmune(shown.grid, tw.endValue, shown.cells)
                             ELSE shown} :
                   /\ grid' = final.grid
                   /\ immuneCells' = final.cells
                   /\ last' = Op("tween", grid, shown.grid, StringOf(displayValue),
                                 <<id, tween>>,
                                 immuneCells, final.cells, FALSE, now,
                                 lastDisplayedTotal, currentStep)
    /\ UNCHANGED <<pendingCells, hasShownInitialTotal, lastUpdate, targetTotal,
                   timers, now, lastFrame, counts, generation, search>>

\* wouldOverlapImmune (lines 232-257).
GlyphOverlaps(immuneSet, glyph, rowShift, colShift) ==
    \E k \in 1..Len(glyph) :
        <<glyph[k][1] + rowShift, glyph[k][2] + colShift>> \in immuneSet

RECURSIVE DigitsOverlap(_, _, _, _, _)
DigitsOverlap(immuneSet, donationStr, i, testStartX, currentCol) ==
    IF i > Len(donationStr) THEN FALSE
    ELSE LET currentDigit == donationStr[i]
         IN  \/ /\ currentDigit \in DOMAIN digits
                /\ GlyphOverlaps(immuneSet, digits[currentDigit], testStartX, currentCol)
             \/ DigitsOverlap(immuneSet, donationStr, i + 1, testStartX,
                              currentCol + Advance(digitsWidths, currentDigit, 3))

\* Mutant of wouldOverlapImmune: only the symbol is tested.
wouldOverlapImmuneSymbolOnly(immune, donationStr, testStartX, testStartY) ==
    LET immuneSet == {<<immune[k].row, immune[k].col>> : k \in 1..Len(immune)}
    IN  GlyphOverlaps(immuneSet, symbols[0], testStartX - 1, testStartY)

\* Mutant of wouldOverlapImmune: the digits are tested where the symbol is.
wouldOverlapImmuneDigitsAtSymbol(immune, donationStr, testStartX, testStartY) ==
    LET immuneSet == {<<immune[k].row, immune[k].col>> : k \in 1..Len(immune)}
    IN  \/ GlyphOverlaps(immuneSet, symbols[0], testStartX - 1, testStartY)
        \/ DigitsOverlap(immuneSet, donationStr, 1, testStartX, testStartY)

wouldOverlapImmune(immune, donationStr, testStartX, testStartY) ==
    LET immuneSet == {<<immune[k].row, immune[k].col>> : k \in 1..Len(immune)}
    IN  \/ GlyphOverlaps(immuneSet, symbols[0], testStartX - 1, testStartY)
        \/ DigitsOverlap(immuneSet, donationStr, 1, testStartX, testStartY + 4)

maxAttempts == 50

\* Math.random() (lines 265-266) returns one of the values k / RandomSteps
\* for k in Randoms.
Randoms == 0..(RandomSteps - 1)

\* Math.floor(Math.random() * Math.max(1, max)) (lines 265-266).
Sample(k, max) == (k * Max(1, max)) \div RandomSteps

\* Mutant of MaxY: the length of the digit string is left out.
MaxYWithoutDigits(donationStr) == COLS - 8

\* maxX and maxY (lines 228-229).
MaxX == ROWS - 8
MaxY(donationStr) == COLS - (Len(donationStr) * 4 + 8)

\* The candidates one pass of the loop body can draw (lines 265-266).
Samples(donationStr) ==
    {<<Sample(kx, MaxX), Sample(ky, MaxY(donationStr))>> : kx \in Randoms, ky \in Randoms}

\* Mutant of SearchContinues: the test of the budget admits one more pass.
SearchContinuesOnceMore(overlaps, attempts) == overlaps /\ attempts <= maxAttempts

\* The condition of the do-while loop (line 268).
SearchContinues(overlaps, attempts) == overlaps /\ attempts < maxAttempts

\* The placement search as a whole (lines 259-268): the anchors the loop can
\* end with and the number of samples it has then drawn.  It ends with a
\* sample that does not overlap, or with sample maxAttempts; every sample
\* before the last one overlapped.
Placements(immune, donationStr) ==
    LET samples  == Samples(donationStr)
        overlaps == {s \in samples : wouldOverlapImmune(immune, donationStr, s[1], s[2])}
    IN  {[startX |-> s[1], startY |-> s[2], attempts |-> a] :
            s \in samples \ overlaps,
            a \in IF overlaps = {} THEN {1} ELSE 1..maxAttempts}
        \cup {[startX |-> s[1], startY |-> s[2], attempts |-> maxAttempts] :
                 s \in overlaps}

\* Lines 270-284 of the donation listener, the search having ended at
\* (startX, startY) after `attempts` samples.
DonationPlaced(rawAmount, startX, startY, attempts) ==
    /\ counts' = [counts EXCEPT !.donations = @ + 1]
    /\ \E stamp \in {setDigitAsPending(grid, StringOf(floor(rawAmount)),
                                        startX, startY, <<>>)} :
        /\ grid' = stamp.grid
        /\ timers' = timers \o TimersFor(stamp.cells, PENDING, PENDING_DURATION)
        /\ pendingCells' = pendingCells \o stamp.cells
        /\ last' = Op("donation", grid, stamp.grid, StringOf(floor(rawAmount)),
                      <<startX, startY>>, immuneCells, stamp.cells, stamp.error,
                      now, 0, attempts)
    /\ search' = NoSearch
    /\ UNCHANGED <<immuneCells, hasShownInitialTotal, lastUpdate, lastDisplayedTotal,
                   targetTotal, tween, intervals, now, lastFrame, generation>>

\* The donation listener (lines 227-285) in one step.
Donation(rawAmount) ==
    /\ counts.donations < MaxDonations
    /\ ~search.active
    /\ \E p \in Placements(immuneCells, StringOf(floor(rawAmount))) :
        DonationPlaced(rawAmount, p.startX, p.startY, p.attempts)

\* The donation listener pass by pass.  SearchStart: the listener is called
\* and the loop body runs for the first time (lines 259-267).
SearchStart(rawAmount) ==
    /\ counts.donations < MaxDonations
    /\ ~search.active
    /\ \E s \in Samples(StringOf(floor(rawAmount))) :
        search' = [active |-> TRUE, rawAmount |-> rawAmount,
                   startX |-> s[1], startY |-> s[2], attempts |-> 1]
    /\ UNCHANGED <<grid, pendingCells, immuneCells, hasShownInitialTotal, lastUpdate,
                   lastDisplayedTotal, targetTotal, tween, intervals, timers, now,
                   lastFrame, counts, generation, last>>

\* The condition of line 268 for the candidate of the running search.
SearchTest ==
    SearchContinues(wouldOverlapImmune(immuneCells, StringOf(floor(search.rawAmount)),
                                       search.startX, search.startY),
                    search.attempts)

\* The loop condition holds and the body runs again (lines 264-268).
SearchAgain ==
    /\ search.active
    /\ SearchTest
    /\ \E s \in Samples(StringOf(floor(search.rawAmount))) :
        search' = [search EXCEPT !.startX = s[1], !.startY = s[2],
                                 !.attempts = @ + 1]
    /\ UNCHANGED <<grid, pendingCells, immuneCells, hasShownInitialTotal, lastUpdate,
                   lastDisplayedTotal, targetTotal, tween, intervals, timers, now,
                   lastFrame, counts, generation, last>>

\* The loop condition fails and the listener stamps the candidate (lines
\* 268-284).
SearchEnd ==
    /\ search.active
    /\ ~SearchTest
    /\ DonationPlaced(search.rawAmount, search.startX, search.startY, search.attempts)

\* Time passes, once the callbacks that are due have run.
AdvanceTime(dt) ==
    /\ counts.ticks < MaxTicks
    /\ timers # <<>> => timers[NextTimer].due > now
    /\ \A id \in DOMAIN intervals : intervals[id].active => intervals[id].due > now
    /\ counts' = [counts EXCEPT !.ticks = @ + 1]
    /\ now' = now + dt
    /\ UNCHANGED <<grid, pendingCells, immuneCells, hasShownInitialTotal, lastUpdate,
                   lastDisplayedTotal, targetTotal, tween, intervals, search, timers, lastFrame,
                   generation, last>>

\* The instants at which a callback is due: the timers and the running
\* intervals.
DueTimes ==
    {timers[k].due : k \in DOMAIN timers}
        \cup {intervals[id].due : id \in {i \in DOMAIN intervals : intervals[i].active}}

\* A callback is due now.
CallbackDue == \E t \in DueTimes : t <= now

\* Time passes until the next callback is due.
AdvanceToDue ==
    /\ DueTimes # {}
    /\ ~CallbackDue
    /\ now' = CHOOSE t \in DueTimes : \A u \in DueTimes : t <= u
    /\ UNCHANGED <<grid, pendingCells, immuneCells, hasShownInitialTotal, lastUpdate,
                   lastDisplayedTotal, targetTotal, tween, intervals, search, timers,
                   lastFrame, counts, generation, last>>

TimeSteps == {GAME_SPEED \div 2, PENDING_DURATION}

Init == Constructed(setupGrid, <<>>, <<>>, 0)

Next ==
    \/ gameLoop
    \/ TimerFire
    \/ \E id \in DOMAIN intervals : TweenTick(id)
    \/ \E total \in Totals : TotalChanged(total)
    \/ \E rawAmount \in Amounts \cup {MissingAmount} : Donation(rawAmount)
    \/ \E dt \in TimeSteps : AdvanceTime(dt)

Spec == Init /\ [][Next]_vars

(***************************************************************************)
(* SpecLoop: the animation frames alone, on the grids a donation leaves    *)
(* behind.                                                                 *)
(***************************************************************************)
\* The grid once every timer of a donation has run (lines 274-277).
Expired(g) ==
    [r \in DOMAIN g |->
        [c \in DOMAIN g[r] |-> IF g[r][c] = PENDING THEN ALIVE ELSE g[r][c]]]

\* Two of the anchors the placement search can end with.
LoopAnchors == {<<0, 0>>, <<ROWS - 9, COLS - 13>>}

\* The component PENDING_DURATION after a donation that arrived right after
\* construction, with no animation frame so far; or just constructed.
InitLoop ==
    \/ Constructed(setupGrid, <<>>, <<>>, 0)
    \/ \E amount \in 0..MaxWhole, anchor \in LoopAnchors :
          Constructed(Expired(setDigitAsPending(setupGrid, StringOf(amount),
                                                anchor[1], anchor[2], <<>>).grid),
                      <<>>, <<>>, PENDING_DURATION)

\* Gaps between animation frames: shorter than GAME_SPEED, equal to it, and
\* longer than two of them.
LoopSteps == {GAME_SPEED \div 2, GAME_SPEED, 2 * GAME_SPEED + GAME_SPEED \div 2}

NextLoop ==
    \/ gameLoop
    \/ \E dt \in LoopSteps : AdvanceTime(dt)

SpecLoop == InitLoop /\ [][NextLoop]_vars


(***************************************************************************)
(* SpecImmune: the total display is stamped for a value A and then for a   *)
(* value B (lines 183-184, 204-205, 210-211); between the two a donation   *)
(* may be stamped on top of it and expire.                                 *)
(***************************************************************************)
\* The values displayed: one and two digits, glyphs that share pixels.
DisplayTotals == {0, 1, 7, 8, 10, MaxAmount}

\* lastDisplayedTotal.current = value;
\* immuneCellsRef.current = setTotalAsImmune(gridRef.current, value,
\* immuneCellsRef.current) (lines 183-184, 204-205, 210-211).
DisplayTotal(value) ==
    /\ counts.totals < 2
    /\ counts' = [counts EXCEPT !.totals = @ + 1]
    /\ lastDisplayedTotal' = value
    /\ \E res \in {setTotalAsImmune(grid, value, immuneCells)} :
        /\ grid' = res.grid
        /\ immuneCells' = res.cells
        /\ last' = Op("setTotalAsImmune", grid, grid, StringOf(value), <<0, 0>>,
                      immuneCells, res.cells, res.error, 0, lastDisplayedTotal,
                      counts.totals + 1)
    /\ UNCHANGED <<pendingCells, hasShownInitialTotal, lastUpdate, targetTotal,
                   tween, intervals, search, timers, now, lastFrame, generation>>

\* The stamp of a donation whose placement search ended on a candidate that
\* overlaps the total display (lines 264-271).
OverlappingDonation(amount) ==
    /\ last.op = "setTotalAsImmune"
    /\ counts.totals = 1
    /\ counts.donations < MaxDonations
    /\ counts' = [counts EXCEPT !.donations = @ + 1]
    /\ \E p \in Placements(immuneCells, StringOf(amount)) :
        /\ wouldOverlapImmune(immuneCells, StringOf(amount), p.startX, p.startY)
        /\ \E stamp \in {setDigitAsPending(grid, StringOf(amount), p.startX,
                                           p.startY, <<>>)} :
            /\ grid' = stamp.grid
            /\ pendingCells' = pendingCells \o stamp.cells
            /\ last' = Op("donation", grid, stamp.grid, StringOf(amount),
                          <<p.startX, p.startY>>, immuneCells, stamp.cells,
                          stamp.error, now, 0, p.attempts)
    /\ UNCHANGED <<immuneCells, hasShownInitialTotal, lastUpdate, lastDisplayedTotal,
                   targetTotal, tween, intervals, search, timers, now, lastFrame, generation>>

\* Every timer of that donation has run (lines 274-281).
DonationExpired ==
    /\ last.op = "donation"
    /\ grid' = Expired(grid)
    /\ pendingCells' = SelectSeq(pendingCells,
                                 LAMBDA c : \A k \in DOMAIN last.cells :
                                     ~(c.row = last.cells[k].row /\ c.col = last.cells[k].col))
    /\ last' = [last EXCEPT !.op = "expired"]
    /\ UNCHANGED <<immuneCells, hasShownInitialTotal, lastUpdate, lastDisplayedTotal,
                   targetTotal, tween, intervals, search, timers, now, lastFrame, counts, generation>>

NextImmune ==
    \/ \E value \in DisplayTotals : DisplayTotal(value)
    \/ \E amount \in 0..MaxWhole : OverlappingDonation(amount)
    \/ DonationExpired

SpecImmune == InitStamp /\ [][NextImmune]_vars

(***************************************************************************)
(* SpecPlace: one donation, the listener pass by pass (lines 227-285), on   *)
(* the grid as the first total update, if any, has left it.                *)
(***************************************************************************)
DonationAmounts == Amounts \cup {MissingAmount}

NextPlace ==
    \/ /\ counts.totals = 0
       /\ counts.donations = 0
       /\ ~search.active
       /\ \E total \in Totals : TotalChanged(total)
    \/ /\ counts.donations = 0
       /\ \E rawAmount \in DonationAmounts : SearchStart(rawAmount)
    \/ SearchAgain
    \/ SearchEnd

SpecPlace == Init /\ [][NextPlace]_vars

\* The loop and the statements after it are ordinary sequential code: a pass
\* that can run does run.
SpecPlaceFair == SpecPlace /\ WF_vars(SearchAgain) /\ WF_vars(SearchEnd)

(***************************************************************************)
(* SpecExpiry: up to two total updates, one donation, and the callbacks    *)
(* they set up (lines 148-167, 170-225, 227-285).  An event arrives when   *)
(* no callback is due; the placement search of the donation ends at its    *)
(* first sample or exhausts its budget.                                    *)
(***************************************************************************)
\* The donation listener (lines 227-285) in one step, its search ending at
\* the first sample or at sample maxAttempts.
DonationFirstOrLast(rawAmount) ==
    /\ counts.donations < MaxDonations
    /\ ~search.active
    /\ \E p \in {q \in Placements(immuneCells, StringOf(floor(rawAmount))) :
                    q.attempts \in {1, maxAttempts}} :
        DonationPlaced(rawAmount, p.startX, p.startY, p.attempts)

NextExpiry ==
    \/ TimerFire
    \/ \E id \in DOMAIN intervals : TweenTick(id)
    \/ AdvanceToDue
    \/ /\ ~CallbackDue
       /\ counts.totals < 2
       /\ \E total \in Totals : TotalChanged(total)
    \/ /\ ~CallbackDue
       /\ counts.donations = 0
       /\ \E rawAmount \in DonationAmounts : DonationFirstOrLast(rawAmount)

SpecExpiry == Init /\ [][NextExpiry]_vars

(***************************************************************************)
(* SpecTotals: the effects of the total replicant and the count-up (lines  *)
(* 148-225).  A total update arrives when no callback is due; the timers   *)
(* that are due at one instant run one after the other.                    *)
(***************************************************************************)
NextTotals ==
    \/ TimersRun
    \/ \E id \in DOMAIN intervals : TweenTick(id)
    \/ AdvanceToDue
    \/ /\ ~CallbackDue
       /\ \E total \in Totals : TotalChanged(total)

SpecTotals == Init /\ [][NextTotals]_vars

\* The event loop runs every callback that is due, and time passes.
SpecTotalsFair ==
    /\ SpecTotals
    /\ WF_vars(TimersRun)
    /\ WF_vars(\E id \in DOMAIN intervals : TweenTick(id))
    /\ WF_vars(AdvanceToDue)

(***************************************************************************)
(* SpecRun: the whole component (lines 129-285): total updates, one        *)
(* donation, the count-up, the expiry callbacks and the animation frames.  *)
(* An event arrives when no callback is due, a third total update while a  *)
(* count-up is running, the donation right after a total update or a      *)
(* tick; the timers that are due at one instant run one after the other;   *)
(* from the first ALIVE cell on, an animation frame runs at every instant  *)
(* the clock stops at, before or after the callbacks of that instant; the  *)
(* clock moves to the next callback, and in steps of GAME_SPEED once none  *)
(* is left.                                                                *)
(***************************************************************************)
SomeAlive == {r \in DOMAIN grid : ALIVE \in {grid[r][c] : c \in DOMAIN grid[r]}} # {}

RunAmounts == {[whole |-> MaxWhole, frac |-> FALSE]}

\* The total replicant is null, a whole amount, or an amount below 1.
RunTotals ==
    {NullTotal, [null |-> FALSE, raw |-> [whole |-> MaxWhole, frac |-> FALSE]],
     [null |-> FALSE, raw |-> [whole |-> 0, frac |-> TRUE]]}

\* The animation frame of the current instant has run, if frames are followed.
FrameDone == SomeAlive => lastFrame = now

NextRun ==
    \/ TimersRun
    \/ \E id \in DOMAIN intervals : TweenTick(id)
    \/ /\ FrameDone
       /\ AdvanceToDue
    \/ /\ SomeAlive
       /\ gameLoop
    \/ /\ SomeAlive
       /\ FrameDone
       /\ DueTimes = {}
       /\ AdvanceTime(GAME_SPEED)
    \/ /\ ~CallbackDue
       /\ counts.totals < 2 \/ tween # NoTween
       /\ \E total \in RunTotals : TotalChanged(total)
    \/ /\ ~CallbackDue
       /\ counts.donations = 0
       /\ last.op \in {"total", "tween"}
       /\ \E rawAmount \in RunAmounts : DonationFirstOrLast(rawAmount)

SpecRun == Init /\ [][NextRun]_vars

(***************************************************************************)
(* SpecOverlap: donations that arrive within PENDING_DURATION of each      *)
(* other and of the first total update, and their expiry callbacks (lines  *)
(* 148-167 and 227-285).  An event arrives when no callback is due; the    *)
(* clock moves by half of PENDING_DURATION or to the next callback.        *)
(***************************************************************************)
NextOverlap ==
    \/ TimersRun
    \/ AdvanceToDue
    \/ AdvanceTime(PENDING_DURATION \div 2)
    \/ /\ ~CallbackDue
       /\ counts.totals = 0
       /\ \E total \in RunTotals : TotalChanged(total)
    \/ /\ ~CallbackDue
       /\ \E rawAmount \in RunAmounts : DonationFirstOrLast(rawAmount)

SpecOverlap == Init /\ [][NextOverlap]_vars

\* Runs of SpecRun with fewer than MaxTotalEvents total updates and fewer
\* than MaxTicks - 1 steps of the idle clock, in which the event loop runs
\* the callbacks that are due, the animation frames keep coming, and time
\* passes.
SpecRunFair ==
    /\ Init
    /\ [][/\ NextRun
          /\ counts'.totals < MaxTotalEvents
          /\ counts'.ticks < MaxTicks - 1]_vars
    /\ WF_vars(TimersRun)
    /\ WF_vars(\E id \in DOMAIN intervals : TweenTick(id))
    /\ WF_vars(SomeAlive /\ gameLoop)
    /\ WF_vars(FrameDone /\ AdvanceToDue)

(***************************************************************************)
(* SpecRevert: one stamp (a donation, or the initial total with the total  *)
(* display) and its expiry callbacks, one by one (lines 154-165 and        *)
(* 273-284), with the animation frames (lines 129-146).  Every callback is *)
(* a task of its own; an animation frame can run between two tasks.        *)
(***************************************************************************)
NextRevert ==
    \/ TimerFire
    \/ AdvanceToDue
    \/ gameLoop
    \/ /\ counts.totals = 0
       /\ counts.donations = 0
       /\ \E total \in RunTotals : TotalChanged(total)
    \/ /\ counts.totals = 0
       /\ counts.donations = 0
       /\ \E rawAmount \in RunAmounts : DonationFirstOrLast(rawAmount)

SpecRevert == Init /\ [][NextRevert]_vars

(***************************************************************************)
(* SpecVariant: the donation listener of the variant without immune cells  *)
(* (index.tsx lines 155-187), pass by pass.  Its glyph tables and its      *)
(* setDigitAsPending (index.tsx lines 1048-1082) are those of the other    *)
(* file, line by line; maxX and maxY are computed alike (lines 156-157).   *)
(***************************************************************************)
\* Mutant of InExcludeZone: the zone starts one row lower.
InExcludeZoneOneRowLower(startX, startY) ==
    startX > ROWS - excludeBottomRows + 1 /\ startY > COLS - excludeRightCols

\* The condition of the do-while loop (index.tsx line 170).
InExcludeZone(startX, startY) ==
    startX > ROWS - excludeBottomRows /\ startY > COLS - excludeRightCols

\* Every anchor one pass of the loop body can draw (index.tsx lines 168-169),
\* the random numbers being any real numbers in [0, 1).
VariantSamples(donationStr) ==
    {<<x, y>> : x \in 0..(Max(1, MaxX) - 1), y \in 0..(Max(1, MaxY(donationStr)) - 1)}

\* Amounts of one digit (a narrow and a wide glyph) and of two digits.
VariantAmounts == {[whole |-> w, frac |-> f] : w \in {MaxWhole, 8, MaxAmount}, f \in BOOLEAN}

\* The listener is called and the loop body runs for the first time
\* (index.tsx lines 155-169).
VariantSearchStart(rawAmount) ==
    /\ counts.donations = 0
    /\ ~search.active
    /\ \E s \in VariantSamples(StringOf(floor(rawAmount))) :
        search' = [active |-> TRUE, rawAmount |-> rawAmount,
                   startX |-> s[1], startY |-> s[2], attempts |-> 0]
    /\ UNCHANGED <<grid, pendingCells, immuneCells, hasShownInitialTotal, lastUpdate,
                   lastDisplayedTotal, targetTotal, tween, intervals, timers, now,
                   lastFrame, counts, generation, last>>

\* The candidate is in the exclude zone and the body runs again (index.tsx
\* lines 167-170); the loop counts nothing.
VariantSearchAgain ==
    /\ search.active
    /\ InExcludeZone(search.startX, search.startY)
    /\ \E s \in VariantSamples(StringOf(floor(search.rawAmount))) :
        search' = [search EXCEPT !.startX = s[1], !.startY = s[2]]
    /\ UNCHANGED <<grid, pendingCells, immuneCells, hasShownInitialTotal, lastUpdate,
                   lastDisplayedTotal, targetTotal, tween, intervals, timers, now,
                   lastFrame, counts, generation, last>>

\* The candidate is not in the exclude zone and the listener stamps it
\* (index.tsx lines 170-186).
VariantSearchEnd ==
    /\ search.active
    /\ ~InExcludeZone(search.startX, search.startY)
    /\ DonationPlaced(search.rawAmount, search.startX, search.startY, search.attempts)

NextVariant ==
    \/ \E rawAmount \in VariantAmounts : VariantSearchStart(rawAmount)
    \/ VariantSearchAgain
    \/ VariantSearchEnd

SpecVariant == Init /\ [][NextVariant]_vars

(***************************************************************************)
(* Vocabulary of the properties.  These definitions state what the claims  *)
(* say; none of them is used by the model of the code above.               *)
(***************************************************************************)
ProtectedStates == {PENDING, INITIAL, IMMUNE}

CellsOf(g) == (DOMAIN g) \X (DOMAIN g[0])

\* p and q are different cells that touch (horizontally, vertically or
\* diagonally).
Adjacent(p, q) ==
    /\ p # q
    /\ p[1] - q[1] \in -1..1
    /\ p[2] - q[2] \in -1..1

\* The in-grid neighbours of cell p.
NeighboursOf(g, p) ==
    {q \in ((p[1] - 1)..(p[1] + 1)) \X ((p[2] - 1)..(p[2] + 1)) :
        q # p /\ q[1] \in DOMAIN g /\ q[2] \in DOMAIN g[0]}

\* The number of in-grid neighbours of p that are ALIVE in g.
AliveAround(g, p) == Cardinality({q \in NeighboursOf(g, p) : g[q[1]][q[2]] = ALIVE})

\* The latest operation was a generation step.
Stepped == last.op = "updateGrid"

(***************************************************************************)
(* C1-C6: the generation step.                                             *)
(***************************************************************************)
\* C1: after updateGrid every cell that was DEAD or ALIVE is DEAD if it was
\* ALIVE with fewer than 2 or more than 3 ALIVE in-grid neighbours, ALIVE if it
\* was DEAD with exactly 3, and unchanged otherwise; only cells inside the
\* grid are neighbours (no wraparound).
C1_ConwayRule ==
    Stepped =>
        \A p \in CellsOf(last.before) :
            LET was == last.before[p[1]][p[2]]
                n   == AliveAround(last.before, p)
            IN  was \in {DEAD, ALIVE} =>
                    grid[p[1]][p[2]] =
                        IF was = ALIVE /\ (n < 2 \/ n > 3) THEN DEAD
                        ELSE IF was = DEAD /\ n = 3 THEN ALIVE
                        ELSE was

\* Witness of C1: an ALIVE corner cell with one ALIVE neighbour has died
\* although the cells at the opposite end of its row and of the next row were
\* ALIVE (they would make three neighbours if the grid wrapped around).
C1_Witness ==
    /\ Stepped
    /\ last.before[0][0] = ALIVE
    /\ last.before[1][0] = ALIVE
    /\ last.before[0][LifeCols - 1] = ALIVE
    /\ last.before[1][LifeCols - 1] = ALIVE
    /\ AliveAround(last.before, <<0, 0>>) = 1
    /\ grid[0][0] = DEAD

\* C2: updateGrid leaves every PENDING, INITIAL and IMMUNE cell as it was,
\* whatever its neighbours; this holds after each step of a sequence of
\* generation steps.
C2_ProtectedUnchanged ==
    Stepped =>
        \A p \in CellsOf(last.before) :
            last.before[p[1]][p[2]] \in ProtectedStates =>
                grid[p[1]][p[2]] = last.before[p[1]][p[2]]

\* Witness of C2: in the second generation step of a run a protected cell
\* with exactly three ALIVE neighbours, and one with none, kept their state.
C2_Witness ==
    /\ Stepped
    /\ generation = 2
    /\ \E p, q \in CellsOf(last.before) :
        /\ last.before[p[1]][p[2]] \in ProtectedStates
        /\ AliveAround(last.before, p) = 3
        /\ grid[p[1]][p[2]] = last.before[p[1]][p[2]]
        /\ last.before[q[1]][q[2]] \in ProtectedStates
        /\ AliveAround(last.before, q) = 0
        /\ grid[q[1]][q[2]] = last.before[q[1]][q[2]]

\* All neighbours of p that are not DEAD are protected.
OnlyProtectedAround(g, p) ==
    \A q \in NeighboursOf(g, p) : g[q[1]][q[2]] \in ProtectedStates \cup {DEAD}

\* The number of protected neighbours of p.
ProtectedAround(g, p) ==
    Cardinality({q \in NeighboursOf(g, p) : g[q[1]][q[2]] \in ProtectedStates})

\* C3: protected cells count as non-alive neighbours: a DEAD cell whose
\* non-DEAD neighbours are all protected stays DEAD, and an ALIVE cell whose
\* non-DEAD neighbours are all protected becomes DEAD.
C3_ProtectedNotCounted ==
    Stepped =>
        \A p \in CellsOf(last.before) :
            (/\ last.before[p[1]][p[2]] \in {DEAD, ALIVE}
             /\ OnlyProtectedAround(last.before, p))
                => grid[p[1]][p[2]] = DEAD

\* Witness of C3: a DEAD cell with exactly three protected neighbours stayed
\* DEAD, and an ALIVE cell with exactly two protected neighbours died.
C3_Witness ==
    /\ Stepped
    /\ \E p, q \in CellsOf(last.before) :
        /\ last.before[p[1]][p[2]] = DEAD
        /\ OnlyProtectedAround(last.before, p)
        /\ ProtectedAround(last.before, p) = 3
        /\ grid[p[1]][p[2]] = DEAD
        /\ last.before[q[1]][q[2]] = ALIVE
        /\ OnlyProtectedAround(last.before, q)
        /\ ProtectedAround(last.before, q) = 2
        /\ grid[q[1]][q[2]] = DEAD

\* The cells of g from the last to the first, and column by column.
ReverseOrder(g) ==
    [k \in 1..(NumRows(g) * NumCols(g)) |->
        <<(NumRows(g) * NumCols(g) - k) \div NumCols(g),
          (NumRows(g) * NumCols(g) - k) % NumCols(g)>>]

ColumnMajor(g) ==
    [k \in 1..(NumRows(g) * NumCols(g)) |->
        <<(k - 1) % NumRows(g), (k - 1) \div NumRows(g)>>]

\* C4: updateGrid does not modify the array it is given, and its result is
\* computed from the prior generation only: visiting the cells in another
\* order gives the same result.
C4_PureStep ==
    Stepped =>
        /\ last.inputAfter = last.before
        /\ updateGridArrays(last.before, ReverseOrder(last.before)).newGrid = grid
        /\ updateGridArrays(last.before, ColumnMajor(last.before)).newGrid = grid

\* Witness of C4: a step changed two cells that touch, so that the second one
\* was computed while the first one already had its new value in newGrid.
C4_Witness ==
    /\ Stepped
    /\ \E p, q \in CellsOf(last.before) :
        /\ Adjacent(p, q)
        /\ grid[p[1]][p[2]] # last.before[p[1]][p[2]]
        /\ grid[q[1]][q[2]] # last.before[q[1]][q[2]]

\* The four cells of the 2 x 2 block with top left cell p, and the cells of
\* the grid around it.
BlockCells(p) == {p[1], p[1] + 1} \X {p[2], p[2] + 1}

RingCells(g, p) ==
    {q \in ((p[1] - 1)..(p[1] + 2)) \X ((p[2] - 1)..(p[2] + 2)) :
        q \notin BlockCells(p) /\ q[1] \in DOMAIN g /\ q[2] \in DOMAIN g[0]}

\* g holds a block of ALIVE cells at p whose surrounding cells are all DEAD,
\* protected or outside the grid.
IsolatedBlock(g, p) ==
    /\ \A q \in BlockCells(p) :
        q[1] \in DOMAIN g /\ q[2] \in DOMAIN g[0] /\ g[q[1]][q[2]] = ALIVE
    /\ \A q \in RingCells(g, p) : g[q[1]][q[2]] # ALIVE

\* C5 as claimed: such a block is unchanged by updateGrid and every
\* surrounding cell stays as it was (DEAD stays DEAD).
C5_BlockAndRingUnchanged ==
    Stepped =>
        \A p \in CellsOf(last.before) :
            IsolatedBlock(last.before, p) =>
                \A q \in BlockCells(p) \cup RingCells(last.before, p) :
                    grid[q[1]][q[2]] = last.before[q[1]][q[2]]

\* C5 as amended: the four cells of the block stay ALIVE at every position,
\* and a surrounding cell stays as it was when it has no ALIVE neighbour
\* outside the block (an ALIVE cell two cells away from the block can give a
\* surrounding DEAD cell its third live neighbour).
C5_BlockSurvives ==
    Stepped =>
        \A p \in CellsOf(last.before) :
            IsolatedBlock(last.before, p) =>
                /\ \A q \in BlockCells(p) : grid[q[1]][q[2]] = ALIVE
                /\ \A q \in RingCells(last.before, p) :
                    (\A n \in NeighboursOf(last.before, q) :
                        last.before[n[1]][n[2]] = ALIVE => n \in BlockCells(p))
                        => grid[q[1]][q[2]] = last.before[q[1]][q[2]]

\* Witness of C5: a block in the bottom right corner of the grid, with a
\* protected cell and a DEAD cell beside it, came through a step.
C5_Witness ==
    /\ Stepped
    /\ LET p == <<LifeRows - 2, LifeCols - 2>>
       IN  /\ IsolatedBlock(last.before, p)
           /\ \E q \in RingCells(last.before, p) :
                last.before[q[1]][q[2]] \in ProtectedStates
           /\ \E q \in RingCells(last.before, p) :
                last.before[q[1]][q[2]] = DEAD /\ grid[q[1]][q[2]] = DEAD
           /\ \A q \in BlockCells(p) : grid[q[1]][q[2]] = ALIVE

\* The grid of the dimensions of g whose ALIVE cells are exactly `alive`.
OnlyAlive(g, alive) ==
    [r \in DOMAIN g |-> [c \in DOMAIN g[r] |->
        IF <<r, c>> \in alive THEN ALIVE ELSE DEAD]]

\* A row of three cells centred at p, and the column of three through p.
HorizontalAt(p) == {<<p[1], p[2] - 1>>, p, <<p[1], p[2] + 1>>}
VerticalAt(p)   == {<<p[1] - 1, p[2]>>, p, <<p[1] + 1, p[2]>>}

\* The horizontal row centred at p does not touch the edge of g.
AwayFromEdge(g, p) ==
    /\ p[1] >= 1 /\ p[1] <= NumRows(g) - 2
    /\ p[2] >= 2 /\ p[2] <= NumCols(g) - 3

\* C6: a horizontal row of three ALIVE cells in an otherwise DEAD grid, not
\* touching the edge, becomes the vertical row of three through the same
\* centre after one updateGrid, and the original grid after two.
C6_Blinker ==
    Stepped =>
        \A p \in CellsOf(last.before) :
            (/\ AwayFromEdge(last.before, p)
             /\ last.before = OnlyAlive(last.before, HorizontalAt(p)))
                => /\ grid = OnlyAlive(grid, VerticalAt(p))
                   /\ updateGrid(grid) = last.before

\* Witness of C6: after two steps the grid is a horizontal row of three away
\* from the edge again, and it was the vertical row one step earlier.
C6_Witness ==
    /\ Stepped
    /\ generation = 2
    /\ \E p \in CellsOf(grid) :
        /\ AwayFromEdge(grid, p)
        /\ grid = OnlyAlive(grid, HorizontalAt(p))
        /\ last.before = OnlyAlive(grid, VerticalAt(p))

(***************************************************************************)
(* C8-C10: the pattern stamper.                                            *)
(***************************************************************************)
\* The absolute positions of the pixels of a glyph shifted by (rowShift,
\* colShift).
GlyphAt(glyph, rowShift, colShift) ==
    {<<glyph[k][1] + rowShift, glyph[k][2] + colShift>> : k \in DOMAIN glyph}

\* The column offset of digit i of a digit string: every digit before it takes
\* its declared width and one blank column.
RECURSIVE ColumnOf(_, _, _)
ColumnOf(digit, i, widths) ==
    IF i = 1 THEN 0 ELSE ColumnOf(digit, i - 1, widths) + widths[digit[i - 1]] + 1

\* The pixels of glyph i of a stamp (0 is the currency symbol), given where
\* the symbol and the first digit are drawn.
PixelsOfGlyph(i, symbol, table, widths, digit, symAt, digAt) ==
    IF i = 0 THEN GlyphAt(symbol, symAt[1], symAt[2])
    ELSE GlyphAt(table[digit[i]], digAt[1], digAt[2] + ColumnOf(digit, i, widths))

\* All pixels of a stamp, inside and outside the grid.
Footprint(symbol, table, widths, digit, symAt, digAt) ==
    UNION {PixelsOfGlyph(i, symbol, table, widths, digit, symAt, digAt) :
              i \in 0..Len(digit)}

\* The declared width of the whole text: the symbol, the digits, one blank
\* column between two glyphs.
TextWidth(symbolWidth, widths, digit) ==
    symbolWidth + ColumnOf(digit, Len(digit) + 1, widths)

\* The pixels of the latest stamping call.
PendingPixels ==
    Footprint(symbols[0], digits, digitsWidths, last.digit,
              <<last.anchor[1] - 1, last.anchor[2]>>,
              <<last.anchor[1], last.anchor[2] + 4>>)

InitialPixels ==
    LET top  == (ROWS - 12) \div 2
        left == (COLS - TextWidth(symbolsLargeWidth, digitsLargeWidths, last.digit)) \div 2
    IN  Footprint(symbolsLarge[0], digitsLarge, digitsLargeWidths, last.digit,
                  <<top - 2, left>>, <<top - 1, left + 10>>)

ImmunePixels ==
    LET top  == ROWS - 14 - 1
        left == COLS - TextWidth(symbolDoubledWidth, digitsDoubledWidths, last.digit) - 1
    IN  Footprint(symbolDoubled, digitsDoubled, digitsDoubledWidths, last.digit,
                  <<top - 1, left - 1>>, <<top + 1, left + 6>>)

StampOps == {"setDigitAsPending", "setLargeDigitsAsInitial", "setTotalAsImmune"}

LastPixels ==
    IF last.op = "setDigitAsPending" THEN PendingPixels
    ELSE IF last.op = "setLargeDigitsAsInitial" THEN InitialPixels
    ELSE ImmunePixels

LastState ==
    IF last.op = "setDigitAsPending" THEN PENDING
    ELSE IF last.op = "setLargeDigitsAsInitial" THEN INITIAL
    ELSE IMMUNE

GridCells == (0..(ROWS - 1)) \X (0..(COLS - 1))

\* The cells the latest call added to its list: setDigitAsPending and
\* setLargeDigitsAsInitial push to the list they are given, setTotalAsImmune
\* returns a new list.
Appended ==
    IF last.op = "setTotalAsImmune" THEN last.cells
    ELSE SubSeq(last.cells, Len(last.given) + 1, Len(last.cells))

AppendedSet == {<<Appended[k].row, Appended[k].col>> : k \in DOMAIN Appended}

\* The cells the clearing loop of setTotalAsImmune sets to DEAD.
ClearedSet ==
    IF last.op = "setTotalAsImmune"
    THEN {<<last.given[k].row, last.given[k].col>> : k \in DOMAIN last.given}
    ELSE {}

\* C8: setDigitAsPending appends to the list exactly the cells it wrote: the
\* list it was given is kept in front, the appended cells are the glyph pixels
\* that land in the grid (so at least one whenever a pixel lands in the grid),
\* each is inside the grid and PENDING after the call whatever it was before,
\* and no other cell of the grid has changed.
C8_PendingStampTracked ==
    last.op = "setDigitAsPending" =>
        /\ Len(last.cells) >= Len(last.given)
        /\ SubSeq(last.cells, 1, Len(last.given)) = last.given
        /\ AppendedSet = PendingPixels \cap GridCells
        /\ \A p \in AppendedSet : p \in GridCells /\ grid[p[1]][p[2]] = PENDING
        /\ \A p \in GridCells \ AppendedSet : grid[p[1]][p[2]] = last.before[p[1]][p[2]]

\* Witness of C8: a stamp that is partly clipped was appended to a list that
\* held cells already, and overwrote a DEAD, an ALIVE, a PENDING, an INITIAL
\* and an IMMUNE cell.
C8_Witness ==
    /\ last.op = "setDigitAsPending"
    /\ last.given # <<>>
    /\ PendingPixels \ GridCells # {}
    /\ \A s \in CellState : \E p \in AppendedSet : last.before[p[1]][p[2]] = s

\* C9: a stamping call at any anchor throws nothing, leaves the grid with
\* ROWS rows of COLS cells, tracks and writes exactly the glyph pixels that
\* lie inside the grid, and changes no other cell (no pixel wraps around);
\* setTotalAsImmune also sets the cells of the list it was given to DEAD.
C9_ClippedSilently ==
    last.op \in StampOps =>
        /\ ~last.error
        /\ DOMAIN grid = 0..(ROWS - 1)
        /\ \A r \in DOMAIN grid : DOMAIN grid[r] = 0..(COLS - 1)
        /\ AppendedSet = LastPixels \cap GridCells
        /\ \A p \in AppendedSet : grid[p[1]][p[2]] = LastState
        /\ \A p \in GridCells \ AppendedSet :
            grid[p[1]][p[2]] =
                IF p \in ClearedSet THEN DEAD ELSE last.before[p[1]][p[2]]

\* Witnesses of C9: a stamp with pixels beyond the right or the bottom edge
\* and pixels inside the grid; a stamp with all pixels outside the grid.
C9_Witness ==
    /\ last.op \in StampOps
    /\ \E p \in LastPixels : p[1] >= ROWS \/ p[2] >= COLS
    /\ AppendedSet # {}

\* C10 as claimed: no cell is written by two glyphs of one stamp, so the
\* cells one stamp appends hold no coordinate twice.
C10_NoCellWrittenTwice ==
    last.op \in StampOps => Cardinality(AppendedSet) = Len(Appended)
(***************************************************************************)
(* The driver loop.                                                        *)
(***************************************************************************)
Framed == last.op = "gameLoop"

\* The frame came at least GAME_SPEED after the latest generation step.
FrameDue == last.t - last.prevUpdate >= GAME_SPEED

\* C7: a frame calls updateGrid at most once, and only when its timestamp
\* minus the timestamp of the latest step is at least GAME_SPEED.  A frame
\* that is due takes exactly one generation step, however long the gap, and
\* its timestamp becomes the timestamp of the latest step; a frame that is
\* not due leaves the grid and that timestamp as they were.  So two
\* consecutive steps are at least GAME_SPEED apart.
C7_FrameGating ==
    Framed =>
        /\ last.n <= 1
        /\ last.n = 1 <=> FrameDue
        /\ FrameDue  => grid = updateGrid(last.before) /\ lastUpdate = last.t
        /\ ~FrameDue => grid = last.before /\ lastUpdate = last.prevUpdate
        /\ (last.n = 1 /\ generation > 1) => last.t - last.prevUpdate >= GAME_SPEED

\* A frame after a gap of more than two GAME_SPEEDs has taken one step, and a
\* second step would have changed the grid again.
C7_Witness ==
    /\ Framed
    /\ last.t - last.prevUpdate > 2 * GAME_SPEED
    /\ generation > 1
    /\ last.n = 1
    /\ grid # last.before
    /\ updateGrid(grid) # grid


(***************************************************************************)
(* C11: re-stamping the total display.                                     *)
(***************************************************************************)
\* The rendering of the total displayed before the latest display call: the
\* cells of the list the call was given.
PreviousRendering ==
    {<<last.given[k].row, last.given[k].col>> : k \in DOMAIN last.given}

ImmuneSet == {<<immuneCells[k].row, immuneCells[k].col>> : k \in DOMAIN immuneCells}

\* The in-grid cells of the total display of a digit string (lines 1269-1320).
ImmuneRendering(digit) ==
    LET top  == ROWS - 14 - 1
        left == COLS - TextWidth(symbolDoubledWidth, digitsDoubledWidths, digit) - 1
    IN  Footprint(symbolDoubled, digitsDoubled, digitsDoubledWidths, digit,
                  <<top - 1, left - 1>>, <<top + 1, left + 6>>) \cap GridCells

SecondDisplay == last.op = "setTotalAsImmune" /\ last.n = 2

\* C11: after the total display was stamped for A and then for B, the second
\* call being given the list the first returned, every cell of the rendering
\* of A that is not in the rendering of B is DEAD, whatever it held just
\* before the second call; every cell of the rendering of B is IMMUNE; the
\* list returned is exactly the rendering of B; so no cell of A outside B is
\* left IMMUNE.
C11_RestampClearsPrevious ==
    SecondDisplay =>
        LET A == ImmuneRendering(StringOf(last.prevUpdate))
            B == ImmuneRendering(last.digit)
        IN  /\ PreviousRendering = A
            /\ \A p \in A \ B : grid[p[1]][p[2]] = DEAD
            /\ \A p \in B : grid[p[1]][p[2]] = IMMUNE
            /\ ImmuneSet = B
            /\ \A p \in GridCells \ (A \cup B) : grid[p[1]][p[2]] = last.before[p[1]][p[2]]

\* Witness of C11: the second call found cells of A outside B that were
\* IMMUNE and cells that a donation had overwritten and its timers had
\* turned ALIVE.
C11_Witness ==
    /\ SecondDisplay
    /\ \A s \in {IMMUNE, ALIVE} :
          \E p \in PreviousRendering \ ImmuneRendering(last.digit) :
              last.before[p[1]][p[2]] = s

\* The same with cells still PENDING.
C11_WitnessPending ==
    /\ SecondDisplay
    /\ \E p \in PreviousRendering \ ImmuneRendering(last.digit) :
          last.before[p[1]][p[2]] = PENDING

(***************************************************************************)
(* C13, C14: the placement search of the donation listener.                *)
(***************************************************************************)
CellSet(cells) == {<<cells[k].row, cells[k].col>> : k \in DOMAIN cells}

\* The cells setDigitAsPending writes for the amount and the candidate of the
\* running search.
CandidateCells ==
    CellSet(setDigitAsPending(grid, StringOf(floor(search.rawAmount)),
                              search.startX, search.startY, <<>>).cells)

CandidateOverlaps ==
    wouldOverlapImmune(immuneCells, StringOf(floor(search.rawAmount)),
                       search.startX, search.startY)

Placed == last.op = "donation"

\* The cells the latest donation wrote, and the immune set it found.
PlacedCells == CellSet(last.cells)
ImmuneBefore == CellSet(last.given)

\* C13: for every candidate of the search, wouldOverlapImmune is true exactly
\* when the cells setDigitAsPending would write for that amount at that
\* anchor meet the current immune set.  So a donation whose search ended on
\* a candidate with a false test wrote no cell of the immune set and
\* overwrote no IMMUNE cell.
C13_OverlapTestMatchesStamp ==
    /\ search.active => (CandidateOverlaps <=> CandidateCells \cap ImmuneSet # {})
    /\ (last.op = "total" /\ ~search.active) =>
          \A amount \in 0..MaxAmount :
              \A x \in 0..(Max(1, MaxX) - 1),
                 y \in 0..(Max(1, MaxY(StringOf(amount))) - 1) :
                  wouldOverlapImmune(immuneCells, StringOf(amount), x, y)
                      <=> CellSet(setDigitAsPending(grid, StringOf(amount), x, y,
                                                    <<>>).cells) \cap ImmuneSet # {}
    /\ (Placed /\ ~wouldOverlapImmune(last.given, last.digit, last.anchor[1], last.anchor[2])) =>
          /\ \A p \in PlacedCells : grid[p[1]][p[2]] = PENDING
          /\ PlacedCells \cap ImmuneBefore = {}
          /\ \A p \in GridCells : last.before[p[1]][p[2]] = IMMUNE => grid[p[1]][p[2]] = IMMUNE

\* Witnesses of C13: a candidate that overlaps the total display, and a
\* donation placed beside the display after overlapping candidates.
C13_Witness ==
    /\ Placed
    /\ ImmuneBefore # {}
    /\ last.n > 1
    /\ last.n < maxAttempts
    /\ PlacedCells # {}
    /\ ~wouldOverlapImmune(last.given, last.digit, last.anchor[1], last.anchor[2])

C13_WitnessOverlap == search.active /\ CandidateOverlaps /\ search.attempts > 1

\* C14: the placement search always terminates.  It samples at most
\* maxAttempts anchors; a candidate that overlaps the total display is
\* accepted only as sample number maxAttempts; the listener then stamps the
\* candidate sampled last, whether it overlaps or not.
C14_SearchTerminates ==
    /\ [](search.active => search.attempts \in 1..maxAttempts)
    /\ [](Placed =>
            /\ last.n \in 1..maxAttempts
            /\ wouldOverlapImmune(last.given, last.digit, last.anchor[1], last.anchor[2])
                  => last.n = maxAttempts
            /\ PlacedCells # {}
            /\ \A p \in PlacedCells : grid[p[1]][p[2]] = PENDING)
    /\ [][(search.active /\ ~search'.active) =>
            /\ last'.op = "donation"
            /\ last'.anchor = <<search.startX, search.startY>>
            /\ last'.n = search.attempts]_vars
    /\ (search.active ~> ~search.active)

\* Witness of C14: every one of maxAttempts samples overlapped the total
\* display, and the donation was stamped on the last of them, on top of
\* IMMUNE cells.
C14_Witness ==
    /\ Placed
    /\ last.n = maxAttempts
    /\ wouldOverlapImmune(last.given, last.digit, last.anchor[1], last.anchor[2])
    /\ \E p \in PlacedCells : last.before[p[1]][p[2]] = IMMUNE /\ grid[p[1]][p[2]] = PENDING

(***************************************************************************)
(* C12: the expiry callback of a stamped cell.                             *)
(***************************************************************************)
Expiring == last.op = "timer"

\* The state the callback found in its cell, and the state it was set up for.
FoundState == last.before[last.anchor[1]][last.anchor[2]]
StampedState == last.n

\* C12: when the expiry callback of a cell runs, the cell becomes ALIVE if
\* it still holds the state it was stamped with (PENDING for a donation,
\* INITIAL for the initial total); if it holds anything else (DEAD, ALIVE,
\* IMMUNE, or the other stamped state) the grid is left entirely unchanged.
\* In both cases the tracked list loses the entries with the coordinate of
\* the cell and keeps the others in order, and no other cell of the grid is
\* modified.
C12_ExpiryGuarded ==
    Expiring =>
        /\ StampedState \in {PENDING, INITIAL}
        /\ FoundState = StampedState => grid[last.anchor[1]][last.anchor[2]] = ALIVE
        /\ FoundState # StampedState => grid = last.before
        /\ \A p \in GridCells \ {last.anchor} : grid[p[1]][p[2]] = last.before[p[1]][p[2]]
        /\ last.anchor \notin CellSet(pendingCells)
        /\ pendingCells = SelectSeq(last.given,
                                    LAMBDA c : <<c.row, c.col>> # last.anchor)

\* Witnesses of C12: the callback of a donation cell found it DEAD, the
\* total display having been stamped over it and moved away; found it
\* IMMUNE; the callback of an initial-total cell found it ALIVE; found the
\* stamped state.
C12_Witness == Expiring /\ StampedState = PENDING /\ FoundState = DEAD

C12_WitnessImmune == Expiring /\ FoundState = IMMUNE

C12_WitnessAlive == Expiring /\ StampedState = INITIAL /\ FoundState = ALIVE

C12_WitnessStamped ==
    Expiring /\ FoundState = StampedState /\ Len(pendingCells) < Len(last.given)

(***************************************************************************)
(* C15, C16: the initial total, and amounts of zero.                       *)
(***************************************************************************)
\* The in-grid cells of the large rendering of a digit string (lines
\* 1217-1259).
InitialRendering(digit) ==
    LET top  == (ROWS - 12) \div 2
        left == (COLS - TextWidth(symbolsLargeWidth, digitsLargeWidths, digit)) \div 2
    IN  Footprint(symbolsLarge[0], digitsLarge, digitsLargeWidths, digit,
                  <<top - 2, left>>, <<top - 1, left + 10>>) \cap GridCells

\* A total update arrives; its raw value is non-zero.
TotalStep == counts'.totals = counts.totals + 1
NonZeroStep == counts'.nonzero = counts.nonzero + 1

\* The step writes an INITIAL cell or tracks a cell.
WritesInitial ==
    \/ Len(pendingCells') > Len(pendingCells)
    \/ \E p \in GridCells : grid'[p[1]][p[2]] = INITIAL /\ grid[p[1]][p[2]] # INITIAL

\* C15: the large INITIAL stamp is made exactly once, by the first total
\* update whose raw value is non-zero, with the floor of that value: it
\* tracks the cells of the large rendering of the floor and leaves them
\* INITIAL (IMMUNE where the total display, stamped after it, covers them).
\* No update before it (total absent or zero), no update after it and no
\* other step writes an INITIAL cell.
C15_InitialStampOnce ==
    [][/\ WritesInitial <=> (TotalStep /\ NonZeroStep /\ counts.nonzero = 0)
       /\ WritesInitial =>
             /\ last'.digit = StringOf(targetTotal')
             /\ CellSet(SubSeq(pendingCells', Len(pendingCells) + 1, Len(pendingCells')))
                   = InitialRendering(last'.digit)
             /\ \A p \in InitialRendering(last'.digit) :
                   grid'[p[1]][p[2]] \in {INITIAL, IMMUNE}
             /\ \A p \in InitialRendering(last'.digit) \ ImmuneRendering(last'.digit) :
                   grid'[p[1]][p[2]] = INITIAL]_vars

\* Witness of C15: the third update, the second with a non-zero total, left
\* the grid without a new INITIAL cell; the update before the stamp was zero
\* or absent.
C15_Witness ==
    /\ last.op = "total"
    /\ last.n = 0
    /\ counts.totals = 3
    /\ counts.nonzero = 2
    /\ hasShownInitialTotal
    /\ last.inputAfter = last.before

\* The latest donation had no amount, or an amount whose floor is zero.
NoAmountPlaced == Placed /\ last.digit \in {StringOf(0), StringOf(NaN)}

\* C16: no stamp is produced for non-positive or absent values.  A donation
\* whose floored amount is zero, or whose amount is missing, writes no cell
\* and tracks no cell; a total update whose raw value is zero or absent
\* writes no INITIAL cell.
C16_NoStampForZero ==
    /\ NoAmountPlaced =>
          /\ grid = last.before
          /\ last.cells = <<>>
          /\ \A p \in GridCells : grid[p[1]][p[2]] # PENDING
    /\ (counts.totals > 0 /\ counts.nonzero = 0) =>
          /\ pendingCells = <<>> \/ Placed
          /\ \A p \in GridCells : grid[p[1]][p[2]] # INITIAL

(***************************************************************************)
(* C18: the tween intervals.                                               *)
(***************************************************************************)
ActiveIntervals == {id \in DOMAIN intervals : intervals[id].active}

\* C18: at most one tween interval is active at any time, the one the ref
\* holds.  A total update clears the interval of the previous tween before
\* it creates a new one, so the tick that stamps is always a tick of the
\* interval created last, and a cleared interval never stamps again.
C18_OneTweenActive ==
    /\ Cardinality(ActiveIntervals) <= 1
    /\ \A id \in ActiveIntervals : id = tween /\ id = Len(intervals)
    /\ last.op = "tween" => /\ last.anchor[1] = Len(intervals)
                            /\ last.anchor[2] = last.anchor[1]

\* Witness of C18: a second tween was started while the first was running;
\* the first interval is cleared, the second has ticked.
C18_Witness ==
    /\ Len(intervals) >= 2
    /\ ~intervals[1].active
    /\ intervals[1].currentStep < intervals[1].steps
    /\ last.op = "tween"
    /\ last.anchor[1] = 2

(***************************************************************************)
(* C17: the displayed total follows the total.                             *)
(***************************************************************************)
\* The display shows the floor of the latest total.
DisplayOnTarget ==
    /\ lastDisplayedTotal = targetTotal
    /\ ImmuneSet = ImmuneRendering(StringOf(targetTotal))

\* C17: after any sequence of total updates, once no further update arrives
\* and the callbacks keep running, the displayed total eventually equals the
\* floor of the latest total and the immune set is its rendering, from then
\* on.  Stated for the runs in which a total has been displayed at all.
C17_DisplayReachesTarget ==
    <>[](lastDisplayedTotal # -1 => DisplayOnTarget)

(***************************************************************************)
(* C20: the total display and the donations.                               *)
(***************************************************************************)
\* Every cell of the current immune set is IMMUNE.
ImmuneIntact == \A p \in ImmuneSet : grid[p[1]][p[2]] = IMMUNE

\* The latest donation was stamped on the last sample its search could draw,
\* and that sample met the immune set.
BudgetExhausted ==
    /\ Placed
    /\ last.n = maxAttempts
    /\ PlacedCells \cap ImmuneBefore # {}

C20_WitnessAvoided ==
    /\ Placed
    /\ last.n < maxAttempts
    /\ ImmuneBefore # {}
    /\ ImmuneIntact

(***************************************************************************)
(* C21: no orphaned IMMUNE cell.                                           *)
(***************************************************************************)
ImmuneInGrid == {p \in GridCells : grid[p[1]][p[2]] = IMMUNE}

\* C21: in every reachable state every grid cell in state IMMUNE is listed in
\* the current immune set: no sequence of total updates, tween ticks,
\* cancelled tweens, donations, expiry callbacks and generation steps leaves
\* an IMMUNE cell of a superseded rendering behind.
C21_NoOrphanImmune == ImmuneInGrid \subseteq ImmuneSet

\* Witness of C21: a tween tick has replaced the rendering of one total by
\* that of another after a generation step had run; the cells only the old
\* rendering had are no longer IMMUNE.
C21_Witness ==
    /\ last.op = "tween"
    /\ generation > 0
    /\ ImmuneSet # {}
    /\ CellSet(last.given) \ ImmuneSet # {}
    /\ \A p \in CellSet(last.given) \ ImmuneSet : grid[p[1]][p[2]] # IMMUNE

\* A second update arrived before the first tick of the tween the first had
\* started, and the display was stamped again afterwards.
C21_WitnessCancelled ==
    /\ last.op = "tween"
    /\ Len(intervals) >= 2
    /\ intervals[1].currentStep < intervals[1].steps
    /\ ImmuneInGrid = ImmuneSet

(***************************************************************************)
(* C22: the readability window.                                            *)
(***************************************************************************)
\* A stamp of the state `state` wrote the cell p less than its duration ago:
\* the timer it set is still waiting (lines 154-164, 273-283).
StampedRecently(ts, t, p, state) ==
    {k \in DOMAIN ts : /\ ts[k].row = p[1] /\ ts[k].col = p[2]
                       /\ ts[k].state = state /\ ts[k].due > t} # {}

\* C22: a cell stamped PENDING is not changed to ALIVE by an expiry callback
\* until PENDING_DURATION has elapsed since the most recent donation stamp
\* that wrote it, also when an earlier donation had stamped the same cell;
\* likewise for INITIAL cells and INITIAL_TOTAL_DURATION.
C22_FullWindow ==
    [][\A p \in GridCells :
          (grid[p[1]][p[2]] \in {PENDING, INITIAL} /\ grid'[p[1]][p[2]] = ALIVE)
              => ~StampedRecently(timers', now', p, grid[p[1]][p[2]])]_vars

(***************************************************************************)
(* C23: no cell is frozen.                                                 *)
(***************************************************************************)
ProtectedCells == {p \in GridCells : grid[p[1]][p[2]] \in {PENDING, INITIAL}}

\* A callback that will release the cell p from its state is waiting.
HasTimer(p) ==
    {k \in DOMAIN timers : /\ timers[k].row = p[1] /\ timers[k].col = p[2]
                           /\ timers[k].state = grid[p[1]][p[2]]} # {}

\* C23: no cell is frozen forever in PENDING or INITIAL.  Under any
\* interleaving of donations, total updates, tween ticks and generation
\* steps, every cell in one of these states has a waiting expiry callback
\* set up for that state, and when the timers keep firing every such cell
\* leaves its state: once the events have ended no cell is PENDING or
\* INITIAL any more.
C23_NoFrozenCell ==
    /\ [](\A p \in ProtectedCells : HasTimer(p))
    /\ <>[](ProtectedCells = {})

\* Witness of C23: the callbacks have released the cells of the initial
\* total and of a donation that was stamped over some of them; generation
\* steps have run.
C23_Witness ==
    /\ last.op = "timers"
    /\ ProtectedCells = {}
    /\ timers = <<>>
    /\ counts.donations = 1
    /\ hasShownInitialTotal
    /\ generation > 0

(***************************************************************************)
(* C24: the cells of one stamp revert together.                            *)
(***************************************************************************)
\* In the grid g some cells of the stamp have become ALIVE while a callback
\* of the stamp, already due, has still to release its cell.  (SpecRevert
\* makes one stamp on the empty grid, so every ALIVE cell comes from it.)
HalfReverted(g) ==
    /\ {k \in DOMAIN timers : /\ timers[k].due <= now
                              /\ g[timers[k].row][timers[k].col] = timers[k].state} # {}
    /\ {p \in GridCells : g[p[1]][p[2]] = ALIVE} # {}

\* A generation step has just been applied.
GenerationStep == last.op = "gameLoop" /\ last.n = 1

\* C24 as stated: no generation step is applied between the expiry callbacks
\* of two cells of the same stamp; updateGrid never reads a grid in which
\* some cells of a stamp are ALIVE while others are still protected.
C24_RevertTogether == GenerationStep => ~HalfReverted(last.before)

\* C24, amended: all cells written by one stamp share one delay, so their
\* callbacks become due at the same instant; they run one by one, each
\* releasing its own cell, in the order the cells were written.  A generation
\* step that falls between two of them leaves the cells that are still
\* protected as they are.
C24_SharedDeadline ==
    [][/\ Len(timers') > Len(timers) =>
             \A k \in (Len(timers) + 1)..Len(timers') :
                 /\ timers'[k].due = timers'[Len(timers) + 1].due
                 /\ timers'[k].due = now + (IF timers'[k].state = PENDING
                                            THEN PENDING_DURATION
                                            ELSE INITIAL_TOTAL_DURATION)
       /\ last'.op = "timer" =>
             /\ last'.prevUpdate <= now
             /\ \A k \in DOMAIN timers' : timers'[k].due >= last'.prevUpdate
             /\ Len(timers') = Len(timers) - 1
             /\ \A p \in GridCells \ {last'.anchor} :
                   grid'[p[1]][p[2]] = grid[p[1]][p[2]]
       /\ (last'.op = "gameLoop" /\ HalfReverted(grid)) =>
             \A k \in DOMAIN timers :
                 grid[timers[k].row][timers[k].col] = timers[k].state
                     => grid'[timers[k].row][timers[k].col] = timers[k].state]_vars

\* Witness of C24: an animation frame ran between two callbacks of one
\* stamp and applied a generation step to the half-reverted glyph.
C24_Witness == GenerationStep /\ HalfReverted(last.before) /\ last.before # grid

(***************************************************************************)
(* C25: the tracked list mirrors the protected cells.                      *)
(***************************************************************************)
\* C25: every cell in state PENDING or INITIAL has an entry with its
\* coordinate in the tracked list (pendingCellsRef), also when several
\* stamps made at different times wrote the cell.
C25_ListMirrorsProtected == ProtectedCells \subseteq CellSet(pendingCells)

\* The coordinates of the waiting callbacks.
TimerCoords(ts) == {<<ts[k].row, ts[k].col>> : k \in DOMAIN ts}

\* C25, amended: every cell a stamp writes as PENDING or INITIAL is recorded
\* in the tracked list with the stamp, only an expiry callback removes
\* entries, and a callback removes every entry with its coordinate whatever
\* the state of the cell and whichever stamp made the entry.  So the list
\* holds exactly the coordinates written since the last callback for the
\* coordinate ran, and every entry has a waiting callback.
C25_ListFollowsCallbacks ==
    [][/\ Len(timers') > Len(timers) =>
             {<<timers'[k].row, timers'[k].col>> :
                 k \in (Len(timers) + 1)..Len(timers')} \subseteq CellSet(pendingCells')
       /\ last'.op # "timer" => CellSet(pendingCells) \subseteq CellSet(pendingCells')
       /\ last'.op = "timer" =>
             CellSet(pendingCells') = CellSet(pendingCells) \ {last'.anchor}
       /\ CellSet(pendingCells') \subseteq TimerCoords(timers')
       /\ \A p \in GridCells :
             (/\ grid'[p[1]][p[2]] \in {PENDING, INITIAL}
              /\ grid[p[1]][p[2]] # grid'[p[1]][p[2]]) => p \in CellSet(pendingCells')]_vars

\* Witness of C25: a callback of an earlier stamp has removed the entry of a
\* cell another stamp protects.
C25_Witness ==
    /\ last.op = "timer"
    /\ last.before[last.anchor[1]][last.anchor[2]] \in {PENDING, INITIAL}
    /\ grid[last.anchor[1]][last.anchor[2]] = last.before[last.anchor[1]][last.anchor[2]]
    /\ last.anchor \in CellSet(last.given)
    /\ last.anchor \notin CellSet(pendingCells)

(***************************************************************************)
(* C26: the total display sits in the bottom-right corner.                 *)
(***************************************************************************)
\* The declared width of the total display of a digit string (lines
\* 1276-1281).
DisplayWidth(digit) == TotalWidth(symbolDoubledWidth, digit, digitsDoubledWidths, 6)

\* The rendering fits the grid: its declared box, one cell from the right and
\* the bottom border, starts inside the grid.
DisplayFits(digit) == COLS - DisplayWidth(digit) - 1 >= 0 /\ ROWS - 14 - 1 >= 0

\* The pixels of the doubled glyphs of a digit string.
DisplayPixelCount(digit) ==
    Len(symbolDoubled)
        + Cardinality({<<i, k>> \in (DOMAIN digit) \X (1..200) :
              digit[i] \in DOMAIN digitsDoubled /\ k <= Len(digitsDoubled[digit[i]])})

\* C26: for every total whose rendering fits the grid, every cell
\* setTotalAsImmune writes lies in rows ROWS-15 .. ROWS-2 and in columns
\* <= COLS-2, the rightmost written column is exactly COLS-2, and no pixel
\* is clipped.
C26_BottomRightCorner ==
    (last.op = "setTotalAsImmune" /\ DisplayFits(last.digit)) =>
        /\ \A p \in CellSet(last.cells) :
              /\ p[1] \in (ROWS - 15)..(ROWS - 2)
              /\ p[2] <= COLS - 2
        /\ {p \in CellSet(last.cells) : p[2] = COLS - 2} # {}
        /\ Len(last.cells) = DisplayPixelCount(last.digit)

\* Witness of C26: a total that fits was displayed over an earlier display.
C26_Witness ==
    /\ last.op = "setTotalAsImmune"
    /\ DisplayFits(last.digit)
    /\ last.given # <<>>
    /\ Len(last.cells) = DisplayPixelCount(last.digit)
    /\ \A p \in CellSet(last.cells) : grid[p[1]][p[2]] = IMMUNE

(***************************************************************************)
(* C27: the sampled anchors keep the glyphs of a donation in the grid.     *)
(***************************************************************************)
\* Every value Math.floor(Math.random() * Math.max(1, max)) can take, the
\* random number being any real number in [0, 1) (lines 265-266).
SampleRange(max) == 0..(Max(1, max) - 1)

\* The pixels of the symbol and the digit glyphs of a digit string.
PendingPixelCount(digit) ==
    Len(symbols[0])
        + Cardinality({<<i, k>> \in (DOMAIN digit) \X (1..50) :
              digit[i] \in DOMAIN digits /\ k <= Len(digits[digit[i]])})

\* The latest call stamped a donation at an anchor the listener can sample,
\* the digit string having a positive maxY.
SampledAnchor ==
    /\ last.op = "setDigitAsPending"
    /\ MaxY(last.digit) >= 1
    /\ last.anchor[1] \in SampleRange(MaxX)
    /\ last.anchor[2] \in SampleRange(MaxY(last.digit))

\* C27: for every amount whose digit string has length L with
\* COLS - (4L + 8) >= 1, every anchor the listener can sample has its row in
\* [0, ROWS-8] and its column in [0, COLS - 4L - 8], and the stamp at that
\* anchor writes every pixel of the symbol and of the L digits inside the
\* grid.
C27_SampledAnchorInBounds ==
    SampledAnchor =>
        /\ last.anchor[1] \in 0..(ROWS - 8)
        /\ last.anchor[2] \in 0..(COLS - 4 * Len(last.digit) - 8)
        /\ Len(last.cells) - Len(last.given) = PendingPixelCount(last.digit)
        /\ \A k \in (Len(last.given) + 1)..Len(last.cells) :
              /\ <<last.cells[k].row, last.cells[k].col>> \in GridCells
              /\ grid[last.cells[k].row][last.cells[k].col] = PENDING

\* Witness of C27: a two-digit amount stamped at the largest anchor the
\* listener can sample; a stamp at row 0 has written a cell of row 0.
C27_Witness ==
    /\ SampledAnchor
    /\ Len(last.digit) = 2
    /\ last.anchor = <<MaxX - 1, MaxY(last.digit) - 1>>
    /\ Len(last.cells) - Len(last.given) = PendingPixelCount(last.digit)

C27_WitnessTopRow ==
    /\ SampledAnchor
    /\ last.anchor[1] = 0
    /\ {k \in (Len(last.given) + 1)..Len(last.cells) : last.cells[k].row = 0} # {}

(***************************************************************************)
(* C28: the exclude zone of the variant without immune cells.              *)
(***************************************************************************)
\* The zone of rows > ROWS - excludeBottomRows and columns
\* > COLS - excludeRightCols.
ExcludeZone ==
    {p \in GridCells : p[1] > ROWS - excludeBottomRows /\ p[2] > COLS - excludeRightCols}

\* C28 as stated: no cell written by a donation stamp lies in the exclude
\* zone.
C28_StampOutsideZone == last.op = "donation" => CellSet(last.cells) \cap ExcludeZone = {}

\* C28, amended: the anchor of every placed donation is outside the exclude
\* zone (its row is at most ROWS - excludeBottomRows or its column at most
\* COLS - excludeRightCols); the glyphs reach 6 rows below and 4L + 3
\* columns to the right of the anchor, so every written cell is outside the
\* zone moved by that much (in a row <= ROWS - excludeBottomRows + 6 or in a
\* column <= COLS - excludeRightCols + 4L + 3).
C28_AnchorOutsideZone ==
    last.op = "donation" =>
        /\ last.anchor[1] <= ROWS - excludeBottomRows
              \/ last.anchor[2] <= COLS - excludeRightCols
        /\ \A p \in CellSet(last.cells) :
              \/ p[1] <= ROWS - excludeBottomRows + 6
              \/ p[2] <= COLS - excludeRightCols + 4 * Len(last.digit) + 3

\* Witness of C28: a donation placed at an anchor outside the zone
\* has written cells inside the zone, up to the column of the amended bound.
C28_Witness ==
    /\ last.op = "donation"
    /\ CellSet(last.cells) \cap ExcludeZone # {}
    /\ last.anchor \notin ExcludeZone
    /\ {p \in CellSet(last.cells) :
           p[2] = COLS - excludeRightCols + 4 * Len(last.digit) + 3} # {}

(***************************************************************************)
(* C29: the large rendering is centred.                                    *)
(***************************************************************************)
\* The pixels of the large symbol and the large glyphs of a digit string.
InitialPixelCount(digit) ==
    Len(symbolsLarge[0])
        + Cardinality({<<i, k>> \in (DOMAIN digit) \X (1..200) :
              digit[i] \in DOMAIN digitsLarge /\ k <= Len(digitsLarge[digit[i]])})

\* The cells the latest call appended to its list.
WrittenCells == CellSet(SubSeq(last.cells, Len(last.given) + 1, Len(last.cells)))

\* The latest call was setLargeDigitsAsInitial and no pixel was clipped.
LargeFits ==
    /\ last.op = "setLargeDigitsAsInitial"
    /\ Len(last.cells) - Len(last.given) = InitialPixelCount(last.digit)

\* The margins of the bounding box of the written cells.
MarginTop == CHOOSE m \in 0..ROWS : /\ \A p \in WrittenCells : m <= p[1]
                                    /\ \E p \in WrittenCells : m = p[1]
MarginLeft == CHOOSE m \in 0..COLS : /\ \A p \in WrittenCells : m <= p[2]
                                     /\ \E p \in WrittenCells : m = p[2]
MarginBottom == CHOOSE m \in 0..ROWS : /\ \A p \in WrittenCells : p[1] <= ROWS - 1 - m
                                       /\ \E p \in WrittenCells : p[1] = ROWS - 1 - m
MarginRight == CHOOSE m \in 0..COLS : /\ \A p \in WrittenCells : p[2] <= COLS - 1 - m
                                      /\ \E p \in WrittenCells : p[2] = COLS - 1 - m

\* C29: for every digit string that fits, the bounding box of the cells
\* setLargeDigitsAsInitial writes has left and right margins that differ by
\* at most one cell, and top and bottom margins that differ by at most one
\* cell.
C29_Centred ==
    LargeFits =>
        /\ Abs(MarginLeft - MarginRight) <= 1
        /\ Abs(MarginTop - MarginBottom) <= 1

(***************************************************************************)
(* C30: the arithmetic of the count-up.                                    *)
(***************************************************************************)
\* The values between the start and the end of the interval id.
TweenRange(id) ==
    Min(intervals[id].startValue, intervals[id].endValue)
        ..Max(intervals[id].startValue, intervals[id].endValue)

\* C30: every interval was started with a start value that differs from its
\* target, with 1 to 60 steps and a positive finite step duration; every
\* value a tick stamps lies between the start value and the target, and the
\* tick that stops the interval is tick number `steps`.
C30_TweenArithmetic ==
    /\ \A id \in DOMAIN intervals :
          /\ intervals[id].startValue # intervals[id].endValue
          /\ intervals[id].steps \in 1..60
          /\ intervals[id].stepDuration > 0
    /\ last.op = "tween" =>
          /\ {v \in TweenRange(last.anchor[1]) : StringOf(v) = last.digit} # {}
          /\ lastDisplayedTotal \in TweenRange(last.anchor[1])
          /\ ~intervals[last.anchor[1]].active => last.n = intervals[last.anchor[1]].steps
====
